---- MODULE Spec2Model ----
(***************************************************************************)
(* Request governance of the Google Tag Manager API client: the token      *)
(* bucket RateLimiter, the retry wrappers around every remote call and the *)
(* per-entity client operations built on them.                             *)
(*                                                                         *)
(* Two client implementations are modelled:                                *)
(*   "throttled" - the client with the RateLimiter (package api, the file  *)
(*                 stored as src/Makefile from line 59 on);                *)
(*   "generic"   - src/internal/api/client.go, one generic retry wrapper   *)
(*                 and no limiter.                                         *)
(*                                                                         *)
(* Time is counted in milliseconds.  A token balance is a float64 in the   *)
(* code; here it is an exact rational counted in units of                  *)
(* 1/(1000*RateScale) token, so that the refill for an elapsed time of e   *)
(* milliseconds at a rate of refillRate/RateScale tokens per second is     *)
(* exactly e * refillRate units.                                           *)
(***************************************************************************)
EXTENDS Integers, Sequences, FiniteSets, TLC

\* ------------------------------------------------------------------ bounds
\* largest Options.RetryLimit explored
MaxRetryLimit == 2
\* largest burst capacity explored
MaxBurst == 2
\* number of free clock steps the clock may take
MaxTicks == 1
\* length (ms) of a free clock step
TickStep == 100
\* number of Allow() calls the limiter serves
MaxAllows == 4
\* number of client operations started in Spec
MaxInvocations == 1

\* refill rates are given in units of 1/RateScale token per second
RateScale == 2
\* largest Options.RetryLimit explored where only the retry loop runs
MaxBackoffs == 3
\* number of Allow() calls the second client makes
MaxPeerAllows == 2
\* number of operations started in the burst scenario
MaxBurstOps == 6
\* number of Allow() calls served in the burst scenario
MaxBurstAllows == 7
\* largest refill rate, in 1/RateScale token per second, of the dense range
\* for which the poll sleep is computed
MaxPollRate == 250
\* largest e for which the poll sleep at 1000/2^e tokens per second is computed
MaxTinyExp == 64

\* client operations on the remote store in one run, and the retry limits tried
MaxStoreOps == 3
MaxStoreRetries == 1

\* calls of WaitBeforeRequest in one run, and free clock steps of one second
MaxCoordCalls == 3
MaxCoordTicks == 3

\* resource methods called in one run
MaxHandlerRuns == 2

\* callers (goroutines) sharing one client / one limiter
Procs == {1, 2}
\* the one caller of the sequential client specification
Callers == {1}
\* refill rates explored, in 1/RateScale token per second: 0.5/s and 10/s
Rates == {1, 20}

NIL == [nil |-> TRUE]

\* one token, in balance units
OneToken == 1000 * RateScale

\* time.Second and time.Millisecond, in clock units
Millisecond == 1
Second == 1000 * Millisecond

VARIABLES
    now,          \* the wall clock, time.Now(), in ms since construction
    ticks,        \* number of free clock steps taken
    impl,         \* which client implementation runs
    retryLimit,   \* Client.Options.RetryLimit
    rateLimiter,  \* Client.rateLimiter: NIL or the RateLimiter's fields
    mutex,        \* RateLimiter.mutex: 0 when free, else the holder
    pc,           \* per caller: where it stands
    ctx,          \* per caller: the outermost call it is in ("allow", "wait", "op")
    op,           \* per caller: the client operation being run
    retryCount,   \* per caller: the retry wrapper's local retryCount
    wakeAt,       \* per caller: when its current time.Sleep ends
    ret,          \* per caller: what its last call returned
    attempts,     \* per caller: remote calls made by the current invocation
    sleeps,       \* per caller: backoff sleeps (durations) of the invocation
    responses,    \* per caller: what the remote answered, attempt by attempt
    trace,        \* per caller: admit / call / sleep events of the invocation
    allowCalls,   \* number of Allow() calls completed on the limiter
    granted,      \* number of Allow() calls that returned true
    lastAllow,    \* the latest completed Allow(): when, result, gap to the one before
    invocations,  \* number of client operations started
    throttleEnabled, \* Client.Options.ThrottleEnabled (FALSE where there is no such field)
    peer,         \* a second client built by another NewClient call: its limiter
    cfg,          \* the environment and provider configuration a client is built from
    remote,       \* the remote service: the entities of the workspace, by kind and ID
    args,         \* per caller: the ID and the body its operation was called with
    bodies,       \* per caller: the entity each attempt's response carried
    written,      \* by kind and ID: what the client's last successful write left there
    handler,      \* the resource method the framework is running, if any
    tfstate,      \* the Terraform state of the resource handled
    diags,        \* the diagnostics of the running resource method's response
    ticket,       \* per caller: the order number of its latest entry into Wait()
    poll,         \* a refill rate and the sleep Wait() takes between two polls at it
    coordinator   \* the test suite's TestCoordinator: NIL or its fields

\* what stays as built for the life of a client
clientVars == <<impl, retryLimit, throttleEnabled, peer, cfg>>
limiterVars == <<rateLimiter, mutex, allowCalls, granted, lastAllow>>
procVars == <<pc, ctx, op, retryCount, wakeAt, ret, attempts, sleeps, responses, trace>>
\* the remote store and what a caller exchanges with it
storeVars == <<remote, args, bodies, written>>
\* the resource layer on top of the client
resourceVars == <<handler, tfstate, diags>>
\* what the limiter and the retry wrappers never touch
restVars == <<storeVars, resourceVars, ticket, poll, coordinator>>
vars == <<now, ticks, clientVars, limiterVars, procVars, invocations, restVars>>

\* ------------------------------------------------------------ RateLimiter

\* min returns the minimum of two float64 values
min(a, b) == IF a < b THEN a ELSE b

\* NewRateLimiter starting with an empty bucket
NewRateLimiter_Empty(rate, burst, t) ==
    [tokens |-> 0,
     capacity |-> burst * OneToken,
     refillRate |-> rate,
     lastRefill |-> t]

\* NewRateLimiter(rate, burst) at clock reading t: a full bucket
NewRateLimiter(rate, burst, t) ==
    [tokens |-> burst * OneToken,
     capacity |-> burst * OneToken,
     refillRate |-> rate,
     lastRefill |-> t]

\* Refill forgetting rl.lastRefill = now: an interval is credited again
Refill_KeepsStamp(rl, t) ==
    [rl EXCEPT !.tokens = min(rl.capacity, rl.tokens + (t - rl.lastRefill) * rl.refillRate)]

\* Refill without the min against the capacity
Refill_Uncapped(rl, t) ==
    [rl EXCEPT !.tokens = rl.tokens + (t - rl.lastRefill) * rl.refillRate,
               !.lastRefill = t]

\* Refill crediting nothing for the time elapsed
Refill_NoCredit(rl, t) == [rl EXCEPT !.lastRefill = t]

\* Refill crediting the elapsed time to an emptied bucket: the balance held
\* before is forgotten
Refill_FromZero(rl, t) ==
    [rl EXCEPT !.tokens = min(rl.capacity, (t - rl.lastRefill) * rl.refillRate),
               !.lastRefill = t]

\* the refill half of Allow(): credit the time elapsed since lastRefill
Refill(rl, t) ==
    [rl EXCEPT !.tokens = min(rl.capacity, rl.tokens + (t - rl.lastRefill) * rl.refillRate),
               !.lastRefill = t]

\* Admits with rl.tokens > 1 in place of rl.tokens >= 1
Admits_Strict(rl) == rl.tokens > OneToken

\* the decision half of Allow(), on the refilled limiter
Admits(rl) == rl.tokens >= OneToken

\* Consume without the decrement
Consume_Nothing(rl) == rl

\* the consuming half of Allow(): rl.tokens--
Consume(rl) == [rl EXCEPT !.tokens = rl.tokens - OneToken]

\* AllowNext taking a token off the bucket whether or not it admits
AllowNext_AlwaysConsumes(rl, t) == Consume(Refill(rl, t))

\* the limiter after a whole Allow() at clock reading t
AllowNext(rl, t) ==
    LET r == Refill(rl, t) IN IF Admits(r) THEN Consume(r) ELSE r

\* ---- int64 arithmetic of time.Duration
\* An int64 is kept as five digits of 15 bits, lowest first, bits 60 to 63 in
\* the fifth; sums and products are taken modulo 2^64 as Go's wrap around.
Digit == 32768

RECURSIVE TwoTo(_)
TwoTo(e) == IF e = 0 THEN 1 ELSE 2 * TwoTo(e - 1)

\* the int64 of a small number n >= 0
Int64(n) == <<n % Digit, (n \div Digit) % Digit, n \div (Digit * Digit), 0, 0>>

\* the bit pattern of 2^e, e < 64
Int64TwoTo(e) == [i \in 1..5 |-> IF (e \div 15) + 1 = i THEN TwoTo(e % 15) ELSE 0]

MinInt64 == <<0, 0, 0, 0, 8>>
MaxInt64 == <<Digit - 1, Digit - 1, Digit - 1, Digit - 1, 7>>

\* x * k for 0 <= k < 2^15, wrapping around
Int64Times(x, k) ==
    LET p1 == x[1] * k
        p2 == x[2] * k + (p1 \div Digit)
        p3 == x[3] * k + (p2 \div Digit)
        p4 == x[4] * k + (p3 \div Digit)
        p5 == x[5] * k + (p4 \div Digit)
    IN  <<p1 % Digit, p2 % Digit, p3 % Digit, p4 % Digit, p5 % 16>>

\* the sign bit
Negative(x) == x[5] >= 8
\* the 30 low bits, and whether the value is that small
Low(x) == x[2] * Digit + x[1]
Small(x) == x[3] = 0 /\ x[4] = 0 /\ x[5] = 0

\* a float64 refill rate: n/RateScale tokens per second, or 1000/2^e tokens
\* per second
Rate(n) == [n |-> n, e |-> 0]
TinyRate(e) == [n |-> 0, e |-> e]

\* time.Duration(1000/rl.refillRate): the float64 quotient converted to int64.
\* Its fraction is cut off; a quotient of 2^63 and more has no int64, and
\* what the conversion then gives depends on the build: the smallest int64
\* on amd64, the largest on arm64
Builds == {"amd64", "arm64"}
DurationOf(build, rate) ==
    IF rate.n > 0 THEN Int64((1000 * RateScale) \div rate.n)
    ELSE IF rate.e < 63 THEN Int64TwoTo(rate.e)
    ELSE IF build = "amd64" THEN MinInt64 ELSE MaxInt64

\* Wait()'s sleep between two polls, in ms:
\* waitTime := time.Duration(1000/rl.refillRate) * time.Millisecond, an int64
\* count of nanoseconds, then at least 10 ms and at most 1 s
WaitTimeOn(build, rate) ==
    LET waitTime == Int64Times(Int64Times(DurationOf(build, rate), 1000), 1000)
    IN  IF Negative(waitTime) \/ (Small(waitTime) /\ Low(waitTime) < 10 * 1000000)
        THEN 10 * Millisecond
        ELSE IF ~Small(waitTime) \/ Low(waitTime) > 1000 * 1000000
        THEN 1 * Second
        ELSE (Low(waitTime) \div 1000000) * Millisecond

\* the sleep for the rates a client is run with here: their quotient is far
\* below 2^63, the build makes no difference
WaitTime(rate) == WaitTimeOn("amd64", Rate(rate))

\* ------------------------------------------------------------ values

\* a payload is named by its Go type and by the attempt that produced it
NoPayload == [type |-> "nil", attempt |-> 0]
\* an error value: its dynamic type, HTTP code or %d argument, and text
NoErr == [kind |-> "nil", code |-> 0, text |-> ""]
\* what a call returned: Allow()'s bool, or an operation's (payload, error)
\* together with what its retry wrapper had returned to it
NoRet == [kind |-> "none", ok |-> FALSE, payload |-> NoPayload, err |-> NoErr,
          wpayload |-> NoPayload, werr |-> NoErr]
AllowRet(b) == [NoRet EXCEPT !.kind = "Allow", !.ok = b]
WaitRet == [NoRet EXCEPT !.kind = "Wait", !.ok = TRUE]
NoOp == [entity |-> "none", verb |-> "none"]

\* ------------------------------------------------------------ initial states

ProcInit ==
    /\ pc = [p \in Procs |-> "idle"]
    /\ ctx = [p \in Procs |-> "none"]
    /\ op = [p \in Procs |-> NoOp]
    /\ retryCount = [p \in Procs |-> 0]
    /\ wakeAt = [p \in Procs |-> 0]
    /\ ret = [p \in Procs |-> NoRet]
    /\ attempts = [p \in Procs |-> 0]
    /\ sleeps = [p \in Procs |-> << >>]
    /\ responses = [p \in Procs |-> << >>]
    /\ trace = [p \in Procs |-> << >>]

ObsInit ==
    /\ now = 0
    /\ ticks = 0
    /\ mutex = 0
    /\ allowCalls = 0
    /\ granted = 0
    /\ lastAllow = [at |-> 0, ok |-> FALSE, gap |-> -1, first |-> 0]
    /\ invocations = 0

\* an entity, as the remote service and the provider see it
NoEntity == [id |-> "", name |-> "", type |-> ""]
NoArgs == [id |-> "", body |-> NoEntity]
NoHandler == [resource |-> "none", method |-> "none", id |-> "", phase |-> "none"]
\* idIs: whether the id attribute is known, null or unknown
NoState == [exists |-> FALSE, resource |-> "none", attrs |-> NoEntity, idIs |-> "null"]

\* nothing but the client: no remote store looked at, no resource method run
ClientOnly ==
    /\ remote = NIL
    /\ args = [p \in Procs |-> NoArgs]
    /\ bodies = [p \in Procs |-> << >>]
    /\ written = NIL
    /\ handler = NoHandler
    /\ tfstate = NoState
    /\ diags = << >>
    /\ ticket = [p \in Procs |-> 0]
    /\ poll = NIL
    /\ coordinator = NIL

\* one client only, given as built
Alone ==
    /\ peer = NIL
    /\ cfg = NIL

\* a RateLimiter on its own, shared by the callers
LimiterInit ==
    /\ ObsInit
    /\ ProcInit
    /\ ClientOnly
    /\ Alone
    /\ impl = "throttled"
    /\ retryLimit = 0
    /\ throttleEnabled = TRUE
    /\ \E rate \in Rates, burst \in 0..MaxBurst :
           rateLimiter = NewRateLimiter(rate, burst, 0)

\* ------------------------------------------------------------ limiter steps

\* a caller calls rl.Allow() directly
CallAllow(p) ==
    /\ pc[p] = "idle"
    /\ rateLimiter # NIL
    /\ allowCalls < MaxAllows
    /\ pc' = [pc EXCEPT ![p] = "allow"]
    /\ ctx' = [ctx EXCEPT ![p] = "allow"]
    /\ ret' = [ret EXCEPT ![p] = NoRet]
    /\ UNCHANGED <<restVars, now, ticks, clientVars, limiterVars, invocations,
                   op, retryCount, wakeAt, attempts, sleeps, responses, trace>>

\* a caller calls rl.Wait() directly: it stands before the loop's first Allow()
WaitCalled(p) ==
    /\ pc[p] = "idle"
    /\ rateLimiter # NIL
    /\ allowCalls < MaxAllows
    /\ pc' = [pc EXCEPT ![p] = "allow"]
    /\ ctx' = [ctx EXCEPT ![p] = "wait"]
    /\ ret' = [ret EXCEPT ![p] = NoRet]
    /\ UNCHANGED <<now, ticks, clientVars, limiterVars, invocations,
                   op, retryCount, wakeAt, attempts, sleeps, responses, trace>>

CallWait(p) == WaitCalled(p) /\ UNCHANGED restVars

\* the order number of the latest entry into Wait() so far
LastTicket ==
    CHOOSE n \in {ticket[p] : p \in Procs} : \A q \in Procs : ticket[q] <= n

\* the same call, its place in the order of arrival noted
EnterWait(p) ==
    /\ WaitCalled(p)
    /\ ticket' = [ticket EXCEPT ![p] = LastTicket + 1]
    /\ UNCHANGED <<storeVars, resourceVars, poll, coordinator>>

\* AllowLockUpTo handing the mutex to waiters in their order of arrival
AllowLockUpTo_InTurn(p, n) ==
    /\ pc[p] = "allow"
    /\ mutex = 0
    /\ allowCalls < n
    /\ \A q \in Procs \ {p} :
          (ctx[q] = "wait" /\ pc[q] \in {"allow", "poll", "napping"})
              => ticket[p] < ticket[q]
    /\ mutex' = p
    /\ pc' = [pc EXCEPT ![p] = "locked"]
    /\ UNCHANGED <<restVars, now, ticks, clientVars, rateLimiter, allowCalls, granted,
                   lastAllow, invocations,
                   ctx, op, retryCount, wakeAt, ret, attempts, sleeps, responses, trace>>

\* Allow(): rl.mutex.Lock(), while fewer than n Allow() calls were served
AllowLockUpTo(p, n) ==
    /\ pc[p] = "allow"
    /\ mutex = 0
    /\ allowCalls < n
    /\ mutex' = p
    /\ pc' = [pc EXCEPT ![p] = "locked"]
    /\ UNCHANGED <<restVars, now, ticks, clientVars, rateLimiter, allowCalls, granted,
                   lastAllow, invocations,
                   ctx, op, retryCount, wakeAt, ret, attempts, sleeps, responses, trace>>

AllowLock(p) == AllowLockUpTo(p, MaxAllows)

\* Allow() under the lock: read the clock, refill, decide, consume, unlock
\* (deferred), and hand the result to the caller: the direct caller, Wait()'s
\* loop, or Wait() called from throttle()
AllowReturn(p) ==
    /\ pc[p] = "locked"
    /\ mutex = p
    /\ LET ok == Admits(Refill(rateLimiter, now)) IN
         /\ rateLimiter' = AllowNext(rateLimiter, now)
         /\ pc' = [pc EXCEPT ![p] =
                     IF ctx[p] = "allow" THEN "idle"
                     ELSE IF ~ok THEN "poll"
                     ELSE IF ctx[p] = "wait" THEN "idle" ELSE "query"]
         /\ ret' = [ret EXCEPT ![p] =
                     IF ctx[p] = "allow" THEN AllowRet(ok)
                     ELSE IF ok /\ ctx[p] = "wait" THEN WaitRet ELSE @]
         /\ trace' = [trace EXCEPT ![p] =
                     IF ok /\ ctx[p] = "op" THEN Append(@, "admit") ELSE @]
    /\ mutex' = 0
    /\ UNCHANGED <<restVars, now, ticks, clientVars, invocations,
                   ctx, op, retryCount, wakeAt, attempts, sleeps, responses>>

\* what an observer of the limiter notes of that Allow(): one more call,
\* its result, its clock reading
AllowObserved ==
    LET ok == Admits(Refill(rateLimiter, now)) IN
    /\ allowCalls' = allowCalls + 1
    /\ granted' = IF ok THEN granted + 1 ELSE granted
    /\ lastAllow' = [at |-> now, ok |-> ok,
                     gap |-> IF allowCalls = 0 THEN -1 ELSE now - lastAllow.at,
                     first |-> IF allowCalls = 0 THEN now ELSE lastAllow.first]

AllowBody(p) == AllowReturn(p) /\ AllowObserved

\* WaitPoll sleeping before rl.mutex.Unlock(): the mutex is kept over the sleep
WaitPoll_SleepsLocked(p) ==
    /\ pc[p] = "poll"
    /\ mutex = 0
    /\ mutex' = p
    /\ wakeAt' = [wakeAt EXCEPT ![p] = now + WaitTime(rateLimiter.refillRate)]
    /\ pc' = [pc EXCEPT ![p] = "napping"]
    /\ UNCHANGED <<restVars, now, ticks, clientVars, rateLimiter, allowCalls, granted,
                   lastAllow, invocations,
                   ctx, op, retryCount, ret, attempts, sleeps, responses, trace>>

\* Wait() after a rejected Allow(): lock, compute waitTime, unlock, clamp,
\* and start time.Sleep(waitTime)
WaitPoll(p) ==
    /\ pc[p] = "poll"
    /\ mutex = 0
    /\ wakeAt' = [wakeAt EXCEPT ![p] = now + WaitTime(rateLimiter.refillRate)]
    /\ pc' = [pc EXCEPT ![p] = "napping"]
    /\ UNCHANGED <<restVars, now, ticks, clientVars, limiterVars, invocations,
                   ctx, op, retryCount, ret, attempts, sleeps, responses, trace>>

\* WaitWake returning from Wait() after the sleep, without polling again
WaitWake_Returns(p) ==
    /\ pc[p] = "napping"
    /\ now >= wakeAt[p]
    /\ pc' = [pc EXCEPT ![p] = IF ctx[p] = "wait" THEN "idle" ELSE "query"]
    /\ ret' = [ret EXCEPT ![p] = IF ctx[p] = "wait" THEN WaitRet ELSE @]
    /\ wakeAt' = [wakeAt EXCEPT ![p] = 0]
    /\ UNCHANGED <<restVars, now, ticks, clientVars, limiterVars, invocations,
                   ctx, op, retryCount, attempts, sleeps, responses, trace>>

\* Wait(): time.Sleep is over, back to the loop condition !rl.Allow()
WaitWake(p) ==
    /\ pc[p] = "napping"
    /\ now >= wakeAt[p]
    /\ pc' = [pc EXCEPT ![p] = "allow"]
    /\ wakeAt' = [wakeAt EXCEPT ![p] = 0]
    /\ UNCHANGED <<restVars, now, ticks, clientVars, limiterVars, invocations,
                   ctx, op, retryCount, ret, attempts, sleeps, responses, trace>>

\* ------------------------------------------------------------ the poll sleep

\* the refill rates looked at: 0.5 to MaxPollRate/RateScale tokens per
\* second, two rates in the thousands, and 1000/2^e tokens per second
PollRates ==
    {Rate(n) : n \in 1..MaxPollRate}
        \cup {Rate(3000 * RateScale), Rate(1000000)}
        \cup {TinyRate(e) : e \in 0..MaxTinyExp}

\* a limiter with one of these rates, a caller of Wait() just rejected
PollInit ==
    /\ ObsInit
    /\ ProcInit
    /\ Alone
    /\ remote = NIL
    /\ args = [p \in Procs |-> NoArgs]
    /\ bodies = [p \in Procs |-> << >>]
    /\ written = NIL
    /\ handler = NoHandler
    /\ tfstate = NoState
    /\ diags = << >>
    /\ ticket = [p \in Procs |-> 0]
    /\ impl = "throttled"
    /\ retryLimit = 0
    /\ throttleEnabled = TRUE
    /\ rateLimiter = NIL
    /\ \E rate \in PollRates : poll = [rate |-> rate, build |-> "", waitTime |-> -1]
    /\ coordinator = NIL

\* the body of Wait()'s loop: compute waitTime, clamp it, sleep that long
PollSleep ==
    /\ poll.waitTime = -1
    /\ \E build \in Builds :
          poll' = [poll EXCEPT !.build = build,
                               !.waitTime = WaitTimeOn(build, poll.rate)]
    /\ UNCHANGED <<now, ticks, clientVars, limiterVars, procVars, invocations,
                   storeVars, resourceVars, ticket, coordinator>>

PollNext == PollSleep

PollSpec == PollInit /\ [][PollNext]_vars

\* ------------------------------------------------------------ the client

Entities == {"workspace", "tag", "variable", "trigger"}
Verbs == {"create", "list", "read", "update", "delete"}
\* the client's operations: CreateTag, ListTags, Tag, UpdateTag, DeleteTag, ...
Ops == [entity : Entities, verb : Verbs]

\* what one remote call can answer: success, HTTP 429, 404, 500, an error
\* that is not a *googleapi.Error, or HTTP 500 together with a non-nil response
Answers == {"ok", "e429", "e404", "e500", "neterr", "e500r"}

googleapiError(code) == [kind |-> "*googleapi.Error", code |-> code, text |-> ""]
transportError == [kind |-> "error", code |-> 0, text |-> "transport"]

\* var ErrNotExist = errors.New("not exist")
ErrNotExist == [kind |-> "*errors.errorString", code |-> 0, text |-> "not exist"]

TypeName == [workspace |-> "Workspace", tag |-> "Tag",
             variable |-> "Variable", trigger |-> "Trigger"]

\* the type the remote call of an operation returns
ResponseType(o) ==
    IF o.verb = "list" THEN "List" \o TypeName[o.entity] \o "sResponse"
    ELSE TypeName[o.entity]

\* the error and the payload of the n-th remote call answering a
RemoteErr(a) ==
    CASE a = "ok" -> NoErr
      [] a = "e429" -> googleapiError(429)
      [] a = "e404" -> googleapiError(404)
      [] a = "e500" -> googleapiError(500)
      [] a = "neterr" -> transportError
      [] a = "e500r" -> googleapiError(500)

RemotePayload(o, a, n) ==
    IF a \in {"ok", "e500r"} /\ o.verb # "delete"
    THEN [type |-> ResponseType(o), attempt |-> n]
    ELSE NoPayload

\* errTyped, ok := err.(*googleapi.Error); ok && errTyped.Code == code
IsHTTP(err, code) == err.kind = "*googleapi.Error" /\ err.code = code

\* NewClient creating the limiter whatever ThrottleEnabled says
NewClient_AlwaysLimiter(i, opts, t) ==
    IF i = "throttled"
    THEN NewRateLimiter(opts.RateLimit, opts.RateBurst, t)
    ELSE NIL

\* NewClient: the limiter exists only when ThrottleEnabled; the generic
\* client has none
NewClient(i, opts, t) ==
    IF i = "throttled" /\ opts.ThrottleEnabled
    THEN NewRateLimiter(opts.RateLimit, opts.RateBurst, t)
    ELSE NIL

\* throttle doing nothing
throttle_Skipped == "query"

\* throttle(): Wait() on the limiter if there is one, else straight to the call
throttle == IF rateLimiter # NIL THEN "allow" ELSE "query"

\* the retry wrapper an operation goes through
Wrapper(i, o) ==
    IF o.verb = "delete" THEN "executeWithRetry"
    ELSE IF i = "generic" THEN "getResponseWithRetry"
    ELSE IF o.verb = "list" THEN "get" \o TypeName[o.entity] \o "ListWithRetry"
    ELSE "get" \o TypeName[o.entity] \o "WithRetry"

\* BackoffDuration with the delete wrapper's one second step in every wrapper
BackoffDuration_Uniform(w, n) == n * Second

\* BackoffDuration with getTagWithRetry stepping by one second like the
\* delete wrapper
BackoffDuration_TagBySecond(w, n) ==
    IF w \in {"executeWithRetry", "getTagWithRetry"} THEN n * Second
    ELSE 20 * Second * n

\* backoffDuration for the retry numbered n (retryCount after the increment)
BackoffDuration(w, n) ==
    IF w = "executeWithRetry" THEN n * Second ELSE 20 * Second * n

\* fmt.Errorf("rate limit exceeded after %d retries", limit)
ExhaustedErr(i, w, limit) ==
    [kind |-> "*fmt.wrapError", code |-> limit,
     text |-> IF i = "generic" /\ w = "getResponseWithRetry"
              THEN "Rate limit exceeded after %d retries"
              ELSE "rate limit exceeded after %d retries"]

\* WithRetry with retryCount <= limit in place of retryCount < limit
WithRetry_OffByOne(i, w, rc, limit, resp, err) ==
    IF IsHTTP(err, 429) THEN
        IF rc <= limit
        THEN [next |-> "retry", sleep |-> BackoffDuration(w, rc + 1),
              payload |-> NoPayload, err |-> NoErr]
        ELSE [next |-> "return", sleep |-> 0,
              payload |-> NoPayload, err |-> ExhaustedErr(i, w, limit)]
    ELSE IF err # NoErr
        THEN [next |-> "return", sleep |-> 0, payload |-> NoPayload, err |-> err]
        ELSE [next |-> "return", sleep |-> 0, payload |-> resp, err |-> NoErr]

\* WithRetry returning (nil, nil) on success
WithRetry_DropsResp(i, w, rc, limit, resp, err) ==
    IF IsHTTP(err, 429) THEN
        IF rc < limit
        THEN [next |-> "retry", sleep |-> BackoffDuration(w, rc + 1),
              payload |-> NoPayload, err |-> NoErr]
        ELSE [next |-> "return", sleep |-> 0,
              payload |-> NoPayload, err |-> ExhaustedErr(i, w, limit)]
    ELSE IF err # NoErr
        THEN [next |-> "return", sleep |-> 0, payload |-> NoPayload, err |-> err]
        ELSE [next |-> "return", sleep |-> 0, payload |-> NoPayload, err |-> NoErr]

\* WithRetry retrying HTTP 500 as well as 429
WithRetry_RetriesServerErrors(i, w, rc, limit, resp, err) ==
    IF IsHTTP(err, 429) \/ IsHTTP(err, 500) THEN
        IF rc < limit
        THEN [next |-> "retry", sleep |-> BackoffDuration(w, rc + 1),
              payload |-> NoPayload, err |-> NoErr]
        ELSE [next |-> "return", sleep |-> 0,
              payload |-> NoPayload, err |-> ExhaustedErr(i, w, limit)]
    ELSE IF err # NoErr
        THEN [next |-> "return", sleep |-> 0, payload |-> NoPayload, err |-> err]
        ELSE [next |-> "return", sleep |-> 0, payload |-> resp, err |-> NoErr]

\* WithRetry giving up one retry early: retryCount + 1 < limit
WithRetry_GivesUpEarly(i, w, rc, limit, resp, err) ==
    IF IsHTTP(err, 429) THEN
        IF rc + 1 < limit
        THEN [next |-> "retry", sleep |-> BackoffDuration(w, rc + 1),
              payload |-> NoPayload, err |-> NoErr]
        ELSE [next |-> "return", sleep |-> 0,
              payload |-> NoPayload, err |-> ExhaustedErr(i, w, limit)]
    ELSE IF err # NoErr
        THEN [next |-> "return", sleep |-> 0, payload |-> NoPayload, err |-> err]
        ELSE [next |-> "return", sleep |-> 0, payload |-> resp, err |-> NoErr]

\* WithRetry handing back query()'s response next to its error
WithRetry_KeepsResp(i, w, rc, limit, resp, err) ==
    IF IsHTTP(err, 429) THEN
        IF rc < limit
        THEN [next |-> "retry", sleep |-> BackoffDuration(w, rc + 1),
              payload |-> NoPayload, err |-> NoErr]
        ELSE [next |-> "return", sleep |-> 0,
              payload |-> NoPayload, err |-> ExhaustedErr(i, w, limit)]
    ELSE [next |-> "return", sleep |-> 0, payload |-> resp, err |-> err]

\* one turn of a retry wrapper's loop after query() returned (resp, err):
\* retry after a backoff sleep, or return (payload, err)
WithRetry(i, w, rc, limit, resp, err) ==
    IF IsHTTP(err, 429) THEN
        IF rc < limit
        THEN [next |-> "retry", sleep |-> BackoffDuration(w, rc + 1),
              payload |-> NoPayload, err |-> NoErr]
        ELSE [next |-> "return", sleep |-> 0,
              payload |-> NoPayload, err |-> ExhaustedErr(i, w, limit)]
    ELSE IF err # NoErr
        THEN [next |-> "return", sleep |-> 0, payload |-> NoPayload, err |-> err]
        ELSE [next |-> "return", sleep |-> 0, payload |-> resp, err |-> NoErr]

\* resp.Tag, resp.Trigger, ...: the slice inside a list response
Unwrap(o, payload) == [payload EXCEPT !.type = "[]*" \o TypeName[o.entity]]

\* ClientReturn without the 404 translation of the read-by-id operations
ClientReturn_RawNotFound(o, payload, err) ==
    IF o.verb = "list" THEN
        IF err # NoErr THEN [payload |-> NoPayload, err |-> err]
        ELSE [payload |-> Unwrap(o, payload), err |-> NoErr]
    ELSE [payload |-> payload, err |-> err]

\* what the operation makes of its wrapper's (payload, err)
ClientReturn(o, payload, err) ==
    IF o.verb = "read" THEN
        IF IsHTTP(err, 404) THEN [payload |-> NoPayload, err |-> ErrNotExist]
        ELSE [payload |-> payload, err |-> err]
    ELSE IF o.verb = "list" THEN
        IF err # NoErr THEN [payload |-> NoPayload, err |-> err]
        ELSE [payload |-> Unwrap(o, payload), err |-> NoErr]
    ELSE [payload |-> payload, err |-> err]

Options ==
    [RetryLimit : 0..MaxRetryLimit, RateLimit : Rates,
     RateBurst : 0..MaxBurst, ThrottleEnabled : BOOLEAN]

\* a client right after NewClient(opts), nobody calling yet
Init ==
    /\ ObsInit
    /\ ProcInit
    /\ ClientOnly
    /\ Alone
    /\ impl \in {"throttled", "generic"}
    /\ \E opts \in Options :
         /\ retryLimit = opts.RetryLimit
         /\ throttleEnabled = (impl = "throttled" /\ opts.ThrottleEnabled)
         /\ rateLimiter = NewClient(impl, opts, 0)

\* a caller starts a client operation, the n-th at most: the wrapper's
\* retryCount := 0 and the first throttle()
OpStarted(p, o, n) ==
    /\ pc[p] \in {"idle", "done"}
    /\ invocations < n
    /\ invocations' = invocations + 1
    /\ pc' = [pc EXCEPT ![p] = throttle]
    /\ ctx' = [ctx EXCEPT ![p] = "op"]
    /\ op' = [op EXCEPT ![p] = o]
    /\ retryCount' = [retryCount EXCEPT ![p] = 0]
    /\ ret' = [ret EXCEPT ![p] = NoRet]
    /\ attempts' = [attempts EXCEPT ![p] = 0]
    /\ sleeps' = [sleeps EXCEPT ![p] = << >>]
    /\ responses' = [responses EXCEPT ![p] = << >>]
    /\ trace' = [trace EXCEPT ![p] = << >>]
    /\ UNCHANGED <<now, ticks, clientVars, limiterVars, wakeAt>>

\* the same where neither a store nor a resource method is looked at
StartOpUpTo(p, o, n) == OpStarted(p, o, n) /\ UNCHANGED restVars

StartOp(p, o) == StartOpUpTo(p, o, MaxInvocations)

\* the wrapper calls query(): the remote call is in flight
Query(p) ==
    /\ pc[p] = "query"
    /\ pc' = [pc EXCEPT ![p] = "inflight"]
    /\ attempts' = [attempts EXCEPT ![p] = @ + 1]
    /\ trace' = [trace EXCEPT ![p] = Append(@, "call")]
    /\ UNCHANGED <<restVars, now, ticks, clientVars, limiterVars, invocations,
                   ctx, op, retryCount, wakeAt, ret, sleeps, responses>>

\* a retry counter kept on the client, one for all its invocations
RetryCountOf_Shared(p) == retryCount[1] + retryCount[2]

\* retryCount := 0 is a local variable of the wrapper: one per invocation
RetryCountOf(p) == retryCount[p]

\* query() returns with answer a: the wrapper retries after a backoff sleep
\* or returns, and then the operation returns to its caller
Responded(p, a) ==
    /\ pc[p] = "inflight"
    /\ responses' = [responses EXCEPT ![p] = Append(@, a)]
    /\ LET w == Wrapper(impl, op[p])
           r == WithRetry(impl, w, RetryCountOf(p), retryLimit,
                          RemotePayload(op[p], a, attempts[p]), RemoteErr(a))
           c == ClientReturn(op[p], r.payload, r.err)
       IN  IF r.next = "retry"
           THEN /\ retryCount' = [retryCount EXCEPT ![p] = @ + 1]
                /\ sleeps' = [sleeps EXCEPT ![p] = Append(@, r.sleep)]
                /\ trace' = [trace EXCEPT ![p] = Append(@, "sleep")]
                /\ wakeAt' = [wakeAt EXCEPT ![p] = now + r.sleep]
                /\ pc' = [pc EXCEPT ![p] = "backoff"]
                /\ ret' = ret
           ELSE /\ ret' = [ret EXCEPT ![p] =
                              [kind |-> "op", ok |-> c.err = NoErr,
                               payload |-> c.payload, err |-> c.err,
                               wpayload |-> r.payload, werr |-> r.err]]
                /\ pc' = [pc EXCEPT ![p] = "done"]
                /\ UNCHANGED <<retryCount, sleeps, trace, wakeAt>>
    /\ UNCHANGED <<now, ticks, clientVars, limiterVars, invocations,
                   ctx, op, attempts>>

\* the same where neither a store nor a resource method is looked at
Respond(p, a) == Responded(p, a) /\ UNCHANGED restVars

\* the backoff time.Sleep is over: continue, i.e. throttle() again
BackoffWake(p) ==
    /\ pc[p] = "backoff"
    /\ now >= wakeAt[p]
    /\ pc' = [pc EXCEPT ![p] = throttle]
    /\ wakeAt' = [wakeAt EXCEPT ![p] = 0]
    /\ UNCHANGED <<restVars, now, ticks, clientVars, limiterVars, invocations,
                   ctx, op, retryCount, ret, attempts, sleeps, responses, trace>>

\* ------------------------------------------------------------ the clock

Sleepers == {p \in Procs : pc[p] \in {"napping", "backoff"} /\ wakeAt[p] > now}

\* time passes while nobody's wake-up is awaited
Tick ==
    /\ ticks < MaxTicks
    /\ now' = now + TickStep
    /\ ticks' = ticks + 1
    /\ UNCHANGED <<restVars, clientVars, limiterVars, procVars, invocations>>

\* time passes until the earliest pending wake-up
AdvanceToWake ==
    /\ Sleepers # {}
    /\ \E p \in Sleepers :
         /\ \A q \in Sleepers : wakeAt[p] <= wakeAt[q]
         /\ now' = wakeAt[p]
    /\ UNCHANGED <<restVars, ticks, clientVars, limiterVars, procVars, invocations>>

LimiterNext ==
    \/ \E p \in Procs : CallAllow(p)
    \/ \E p \in Procs : CallWait(p)
    \/ \E p \in Procs : AllowLock(p)
    \/ \E p \in Procs : AllowBody(p)
    \/ \E p \in Procs : WaitPoll(p)
    \/ \E p \in Procs : WaitWake(p)
    \/ Tick
    \/ AdvanceToWake

LimiterSpec == LimiterInit /\ [][LimiterNext]_vars

\* the limiter on its own again, the arrivals at Wait() numbered
WaitersNext ==
    \/ \E p \in Procs : CallAllow(p)
    \/ \E p \in Procs : EnterWait(p)
    \/ \E p \in Procs : AllowLock(p)
    \/ \E p \in Procs : AllowBody(p)
    \/ \E p \in Procs : WaitPoll(p)
    \/ \E p \in Procs : WaitWake(p)
    \/ Tick
    \/ AdvanceToWake

WaitersSpec == LimiterInit /\ [][WaitersNext]_vars

Next ==
    \/ \E p \in Callers, o \in Ops : StartOp(p, o)
    \/ \E p \in Procs : AllowLock(p)
    \/ \E p \in Procs : AllowBody(p)
    \/ \E p \in Procs : WaitPoll(p)
    \/ \E p \in Procs : WaitWake(p)
    \/ \E p \in Procs : Query(p)
    \/ \E p \in Procs, a \in Answers : Respond(p, a)
    \/ \E p \in Procs : BackoffWake(p)
    \/ Tick
    \/ AdvanceToWake

Spec == Init /\ [][Next]_vars

\* ------------------------------------------------------------ configuration

\* values an environment variable is given; "" is unset
RetryEnv == {"", "5", "0", "-3", "abc", "7x"}
RateEnv == {"", "3", "0", "abc"}
BurstEnv == {"", "4", "0", "7x"}
ThrottleEnv == {"", "false", "true", "maybe"}
\* an attribute of the provider block (types.String, types.Int64): null,
\* unknown or a value
Null(zero) == [null |-> TRUE, unknown |-> FALSE, v |-> zero]
Unknown(zero) == [null |-> FALSE, unknown |-> TRUE, v |-> zero]
Value(x) == [null |-> FALSE, unknown |-> FALSE, v |-> x]
\* !attr.IsNull() && !attr.IsUnknown()
IsSet(attr) == ~attr.null /\ ~attr.unknown
\* the provider block's retry_limit: null, unknown or a number
RetryAttr == {Null(0), Unknown(0), Value(3), Value(0), Value(-2)}
\* the required settings
Required == {"credential_file", "account_id", "container_id", "workspace_name"}

\* fmt.Sscanf(s, "%d", &v): the number of items scanned, the value stored
\* and whether it failed; a prefix that is a number is enough
Sscanf(s) ==
    CASE s = "5" -> [n |-> 1, v |-> 5, err |-> FALSE]
      [] s = "0" -> [n |-> 1, v |-> 0, err |-> FALSE]
      [] s = "-3" -> [n |-> 1, v |-> -3, err |-> FALSE]
      [] s = "7x" -> [n |-> 1, v |-> 7, err |-> FALSE]
      [] OTHER -> [n |-> 0, v |-> 0, err |-> TRUE]

\* strconv.ParseFloat(s, 64), the value in 1/RateScale token per second
ParseFloat(s) ==
    CASE s = "3" -> [v |-> 3 * RateScale, err |-> FALSE]
      [] s = "0" -> [v |-> 0, err |-> FALSE]
      [] OTHER -> [v |-> 0, err |-> TRUE]

\* strconv.Atoi(s): the whole string has to be a number
Atoi(s) ==
    CASE s = "4" -> [v |-> 4, err |-> FALSE]
      [] s = "0" -> [v |-> 0, err |-> FALSE]
      [] s = "5" -> [v |-> 5, err |-> FALSE]
      [] s = "-3" -> [v |-> -3, err |-> FALSE]
      [] OTHER -> [v |-> 0, err |-> TRUE]

\* strconv.ParseBool(s)
ParseBool(s) ==
    CASE s = "true" -> [v |-> TRUE, err |-> FALSE]
      [] s = "false" -> [v |-> FALSE, err |-> FALSE]
      [] OTHER -> [v |-> FALSE, err |-> TRUE]

\* NewClientOptionsFromEnv(): the rate fields exist in the throttled client only
NewClientOptionsFromEnv(i, env) ==
    LET scanned == Sscanf(env.GTM_RETRY_LIMIT)
        limit == IF env.GTM_RETRY_LIMIT = "" THEN 10
                 ELSE IF scanned.err \/ scanned.n <= 0 THEN 10
                 ELSE scanned.v
        rate == IF env.GTM_RATE_LIMIT # ""
                   /\ ~ParseFloat(env.GTM_RATE_LIMIT).err
                   /\ ParseFloat(env.GTM_RATE_LIMIT).v > 0
                THEN ParseFloat(env.GTM_RATE_LIMIT).v
                ELSE 10 * RateScale
        burst == IF env.GTM_RATE_BURST # ""
                    /\ ~Atoi(env.GTM_RATE_BURST).err
                    /\ Atoi(env.GTM_RATE_BURST).v > 0
                 THEN Atoi(env.GTM_RATE_BURST).v
                 ELSE 20
        enabled == IF env.GTM_THROTTLE_ENABLED # ""
                      /\ ~ParseBool(env.GTM_THROTTLE_ENABLED).err
                   THEN ParseBool(env.GTM_THROTTLE_ENABLED).v
                   ELSE TRUE
    IN  IF i = "throttled"
        THEN [RetryLimit |-> limit, RateLimit |-> rate, RateBurst |-> burst,
              ThrottleEnabled |-> enabled]
        ELSE [RetryLimit |-> limit]

\* Configure: a required setting, from the provider block or else from the
\* environment
Resolve(c, name) ==
    IF IsSet(c.config[name]) THEN c.config[name].v ELSE c.env[name]

\* Missing without the check of workspace_name
Missing_SkipsWorkspace(c) ==
    IF Resolve(c, "credential_file") = "" THEN "credential_file"
    ELSE IF Resolve(c, "account_id") = "" THEN "account_id"
    ELSE IF Resolve(c, "container_id") = "" THEN "container_id"
    ELSE ""

\* Configure: the first required setting found empty, "" if none is
Missing(c) ==
    IF Resolve(c, "credential_file") = "" THEN "credential_file"
    ELSE IF Resolve(c, "account_id") = "" THEN "account_id"
    ELSE IF Resolve(c, "container_id") = "" THEN "container_id"
    ELSE IF Resolve(c, "workspace_name") = "" THEN "workspace_name"
    ELSE ""

\* ConfigureRetryLimit with a positive GTM_RETRY_LIMIT winning over the
\* provider block's retry_limit
ConfigureRetryLimit_EnvWins(c) ==
    LET scanned == Sscanf(c.env.GTM_RETRY_LIMIT)
    IN  IF c.env.GTM_RETRY_LIMIT # "" /\ ~scanned.err /\ scanned.v > 0
        THEN scanned.v
        ELSE IF IsSet(c.config.retry_limit) THEN c.config.retry_limit.v ELSE 10

\* Configure: retryLimit is 10, or a positive GTM_RETRY_LIMIT, or whatever
\* the provider block's retry_limit says
ConfigureRetryLimit(c) ==
    LET scanned == Sscanf(c.env.GTM_RETRY_LIMIT)
        fromEnv == IF c.env.GTM_RETRY_LIMIT # "" /\ ~scanned.err /\ scanned.v > 0
                   THEN scanned.v ELSE 10
    IN  IF IsSet(c.config.retry_limit) THEN c.config.retry_limit.v ELSE fromEnv

\* Configure: the &api.ClientOptions{...} literal sets CredentialFile,
\* AccountId, ContainerId and RetryLimit; the fields it leaves out have their
\* zero values
ConfigureOptions(i, c) ==
    IF i = "throttled"
    THEN [RetryLimit |-> ConfigureRetryLimit(c), RateLimit |-> 0, RateBurst |-> 0,
          ThrottleEnabled |-> FALSE]
    ELSE [RetryLimit |-> ConfigureRetryLimit(c)]

\* NewClientInWorkspace(&ClientInWorkspaceOptions{ClientOptions, WorkspaceName}):
\* the client inside is the one NewClient builds from ClientOptions
NewClientInWorkspace(i, opts, t) == NewClient(i, opts, t)

\* no client yet: an environment and a provider block
ConfigInit ==
    /\ ObsInit
    /\ ProcInit
    /\ ClientOnly
    /\ peer = NIL
    /\ impl \in {"throttled", "generic"}
    /\ retryLimit = 0
    /\ throttleEnabled = FALSE
    /\ rateLimiter = NIL
    /\ \E unset \in Required \cup {"none"}, attr \in {Null(""), Value("c")},
          rl \in RetryEnv, ra \in RateEnv, rb \in BurstEnv, te \in ThrottleEnv,
          lim \in RetryAttr :
         cfg = [env |-> [credential_file |-> IF unset = "credential_file" THEN "" ELSE "e",
                         account_id |-> IF unset = "account_id" THEN "" ELSE "e",
                         container_id |-> IF unset = "container_id" THEN "" ELSE "e",
                         workspace_name |-> IF unset = "workspace_name" THEN "" ELSE "e",
                         GTM_RETRY_LIMIT |-> rl, GTM_RATE_LIMIT |-> ra,
                         GTM_RATE_BURST |-> rb, GTM_THROTTLE_ENABLED |-> te],
                config |-> [credential_file |-> attr, account_id |-> attr,
                            container_id |-> attr, workspace_name |-> attr,
                            retry_limit |-> lim],
                built |-> "none", opts |-> NIL]

\* the client is there: its options and its limiter
Built(by, opts) ==
    /\ cfg' = [cfg EXCEPT !.built = by, !.opts = opts]
    /\ retryLimit' = opts.RetryLimit
    /\ throttleEnabled' = (impl = "throttled" /\ opts.ThrottleEnabled)

\* NewClientFromEnv(): NewClient(NewClientOptionsFromEnv()), which fails
\* when tagmanager.NewService does
FromEnv ==
    /\ cfg.built = "none"
    /\ \/ /\ Built("env", NewClientOptionsFromEnv(impl, cfg.env))
          /\ rateLimiter' = NewClient(impl, NewClientOptionsFromEnv(impl, cfg.env), now)
       \/ /\ cfg' = [cfg EXCEPT !.built = "failed"]
          /\ UNCHANGED <<restVars, retryLimit, throttleEnabled, rateLimiter>>
    /\ UNCHANGED <<restVars, now, ticks, impl, peer, mutex, allowCalls, granted, lastAllow,
                   procVars, invocations>>

\* the provider's Configure: resp.Diagnostics gets the error, or
\* resp.DataSourceData and resp.ResourceData get the client
Configure ==
    /\ cfg.built = "none"
    /\ IF Missing(cfg) # ""
       THEN /\ cfg' = [cfg EXCEPT !.built = "failed"]
            /\ diags' = Append(diags, "Missing " \o Missing(cfg))
            /\ UNCHANGED <<retryLimit, throttleEnabled, rateLimiter>>
       ELSE \/ /\ Built("provider", ConfigureOptions(impl, cfg))
               /\ rateLimiter' = NewClientInWorkspace(impl, ConfigureOptions(impl, cfg), now)
               /\ diags' = diags
            \/ /\ cfg' = [cfg EXCEPT !.built = "failed"]
               /\ diags' = Append(diags, "Unable to Create GTM Client")
               /\ UNCHANGED <<retryLimit, throttleEnabled, rateLimiter>>
    /\ UNCHANGED <<storeVars, handler, tfstate, ticket, poll, coordinator,
                   now, ticks, impl, peer, mutex, allowCalls, granted, lastAllow,
                   procVars, invocations>>

ConfigNext ==
    \/ FromEnv
    \/ Configure

ConfigSpec == ConfigInit /\ [][ConfigNext]_vars

\* what a required setting is given in the environment and in the provider block
RequiredEnv == {"", "e"}
RequiredAttr == {Null(""), Unknown(""), Value(""), Value("c")}

\* no client yet: every combination of the four required settings, set, unset
\* or empty on either side
ProviderInit ==
    /\ ObsInit
    /\ ProcInit
    /\ ClientOnly
    /\ peer = NIL
    /\ impl \in {"throttled", "generic"}
    /\ retryLimit = 0
    /\ throttleEnabled = FALSE
    /\ rateLimiter = NIL
    /\ \E ce, ae, ke, we \in RequiredEnv, ca, aa, ka, wa \in RequiredAttr,
          rl \in {"", "5"}, lim \in {Null(0), Value(3)} :
         cfg = [env |-> [credential_file |-> ce, account_id |-> ae,
                         container_id |-> ke, workspace_name |-> we,
                         GTM_RETRY_LIMIT |-> rl, GTM_RATE_LIMIT |-> "",
                         GTM_RATE_BURST |-> "", GTM_THROTTLE_ENABLED |-> ""],
                config |-> [credential_file |-> ca, account_id |-> aa,
                            container_id |-> ka, workspace_name |-> wa,
                            retry_limit |-> lim],
                built |-> "none", opts |-> NIL]

ProviderNext == Configure

ProviderSpec == ProviderInit /\ [][ProviderNext]_vars

\* ------------------------------------------------------------ concurrency

\* NewLimiterRef handing every client the one limiter object
NewLimiterRef_Singleton(k) == 1

\* the limiter object the k-th NewClient call points its client to:
\* NewRateLimiter allocates a new one at every call
NewLimiterRef(k) == k

\* the operations run concurrently: three entity kinds, three operation
\* types, the delete wrapper and two payload wrappers
ConcOps ==
    {[entity |-> "trigger", verb |-> "read"],
     [entity |-> "tag", verb |-> "delete"],
     [entity |-> "workspace", verb |-> "list"]}

\* the answers given to them: success, rate-limited, not found
ConcAnswers == {"ok", "e429", "e404"}

\* every caller runs one operation on the one client, concurrently
ConcInit ==
    /\ ObsInit
    /\ ProcInit
    /\ ClientOnly
    /\ Alone
    /\ impl \in {"throttled", "generic"}
    /\ \E opts \in Options :
         /\ retryLimit = opts.RetryLimit
         /\ throttleEnabled = (impl = "throttled" /\ opts.ThrottleEnabled)
         /\ rateLimiter = NewClient(impl, opts, 0)

ConcNext ==
    \/ \E p \in Procs, o \in ConcOps :
          pc[p] = "idle" /\ StartOpUpTo(p, o, Cardinality(Procs))
    \/ \E p \in Procs : AllowLock(p)
    \/ \E p \in Procs : AllowBody(p)
    \/ \E p \in Procs : WaitPoll(p)
    \/ \E p \in Procs : WaitWake(p)
    \/ \E p \in Procs : Query(p)
    \/ \E p \in Procs, a \in ConcAnswers : Respond(p, a)
    \/ \E p \in Procs : BackoffWake(p)
    \/ AdvanceToWake

ConcSpec == ConcInit /\ [][ConcNext]_vars

\* two clients built by two NewClient calls from the same options, with
\* throttling and no retries; the callers use the first, some goroutine
\* uses the second
TwoClientInit ==
    /\ ObsInit
    /\ ProcInit
    /\ ClientOnly
    /\ cfg = NIL
    /\ impl = "throttled"
    /\ \E opts \in Options :
         /\ opts.ThrottleEnabled
         /\ opts.RetryLimit = 0
         /\ retryLimit = opts.RetryLimit
         /\ throttleEnabled = opts.ThrottleEnabled
         /\ rateLimiter = NewClient(impl, opts, 0)
         /\ peer = [ref |-> NewLimiterRef(2),
                    rateLimiter |-> NewClient(impl, opts, 0),
                    allowCalls |-> 0, granted |-> 0]

\* an operation of the second client asks for admission: a whole Allow() on
\* the limiter object that client points to
PeerAllow ==
    /\ peer # NIL
    /\ peer.allowCalls < MaxPeerAllows
    /\ IF peer.ref = 1
       THEN /\ mutex = 0
            /\ rateLimiter' = AllowNext(rateLimiter, now)
            /\ peer' = [peer EXCEPT
                          !.allowCalls = @ + 1,
                          !.granted = IF Admits(Refill(rateLimiter, now)) THEN @ + 1 ELSE @]
       ELSE /\ rateLimiter' = rateLimiter
            /\ peer' = [peer EXCEPT
                          !.rateLimiter = AllowNext(@, now),
                          !.allowCalls = @ + 1,
                          !.granted = IF Admits(Refill(peer.rateLimiter, now)) THEN @ + 1 ELSE @]
    /\ UNCHANGED <<restVars, now, ticks, impl, retryLimit, throttleEnabled, cfg, mutex,
                   allowCalls, granted, lastAllow, procVars, invocations>>

\* with no retries there is no backoff to wake from
TwoClientNext ==
    \/ \E p \in Procs, o \in ConcOps :
          pc[p] = "idle" /\ StartOpUpTo(p, o, Cardinality(Procs))
    \/ \E p \in Procs : AllowLock(p)
    \/ \E p \in Procs : AllowBody(p)
    \/ \E p \in Procs : WaitPoll(p)
    \/ \E p \in Procs : WaitWake(p)
    \/ \E p \in Procs : Query(p)
    \/ \E p \in Procs, a \in ConcAnswers : Respond(p, a)
    \/ PeerAllow
    \/ AdvanceToWake

TwoClientSpec == TwoClientInit /\ [][TwoClientNext]_vars

\* ------------------------------------------------------------ the retry loop

\* a client without limiter (the generic one, or ThrottleEnabled = false),
\* with retry limits up to MaxBackoffs
RetryInit ==
    /\ ObsInit
    /\ ProcInit
    /\ ClientOnly
    /\ Alone
    /\ impl \in {"throttled", "generic"}
    /\ \E limit \in 0..MaxBackoffs :
         LET opts == [RetryLimit |-> limit, RateLimit |-> 10 * RateScale,
                      RateBurst |-> 20, ThrottleEnabled |-> FALSE]
         IN  /\ retryLimit = opts.RetryLimit
             /\ throttleEnabled = opts.ThrottleEnabled
             /\ rateLimiter = NewClient(impl, opts, 0)

RetryNext ==
    \/ \E p \in Callers, o \in Ops : StartOp(p, o)
    \/ \E p \in Callers : Query(p)
    \/ \E p \in Callers, a \in Answers : Respond(p, a)
    \/ \E p \in Callers : BackoffWake(p)
    \/ AdvanceToWake

RetrySpec == RetryInit /\ [][RetryNext]_vars

\* ------------------------------------------------------------ termination

\* time passes until the earliest pending wake-up, the clock being read
\* relative to the present: instead of moving now forward by d, every time
\* stamp kept (lastRefill, the wake-up times) moves back by d.  The code uses
\* only differences of clock readings, never a reading itself.
AdvanceRelative ==
    /\ Sleepers # {}
    /\ \E p \in Sleepers :
         /\ \A q \in Sleepers : wakeAt[p] <= wakeAt[q]
         /\ LET d == wakeAt[p] - now IN
              /\ wakeAt' = [q \in Procs |-> IF q \in Sleepers THEN wakeAt[q] - d ELSE wakeAt[q]]
              /\ rateLimiter' = IF rateLimiter = NIL THEN NIL
                                ELSE [rateLimiter EXCEPT !.lastRefill = @ - d]
    /\ UNCHANGED <<restVars, now, ticks, clientVars, mutex, allowCalls, granted, lastAllow,
                   invocations, pc, ctx, op, retryCount, ret, attempts, sleeps,
                   responses, trace>>

\* the steps of caller p inside one client operation
CallerStep(p) ==
    \/ AllowLock(p)
    \/ AllowReturn(p) /\ UNCHANGED <<restVars, allowCalls, granted, lastAllow>>
    \/ WaitPoll(p)
    \/ WaitWake(p)
    \/ Query(p)
    \/ \E a \in Answers : Respond(p, a)
    \/ BackoffWake(p)

LiveNext ==
    \/ \E p \in Callers, o \in Ops : StartOp(p, o)
    \/ \E p \in Callers : CallerStep(p)
    \/ AdvanceRelative

\* a running caller keeps running, every remote call returns and every
\* time.Sleep ends
LiveSpec ==
    /\ Init
    /\ [][LiveNext]_vars
    /\ \A p \in Callers : WF_vars(CallerStep(p))
    /\ WF_vars(AdvanceRelative)

\* ------------------------------------------------------------ contention

\* a limiter that can hold a token, shared by the callers
ContendInit == LimiterInit /\ rateLimiter.capacity >= OneToken

\* the steps of caller p inside Wait()
WaiterStep(p) ==
    \/ AllowLock(p)
    \/ AllowReturn(p) /\ UNCHANGED <<restVars, allowCalls, granted, lastAllow>>
    \/ WaitPoll(p)
    \/ WaitWake(p)

ContendNext ==
    \/ \E p \in Procs : CallWait(p)
    \/ \E p \in Procs : WaiterStep(p)
    \/ AdvanceRelative

\* callers that call Wait() whenever they like, again and again; a caller
\* inside Wait() gets the mutex and the processor again and again
\* (sync.Mutex hands a starving waiter the lock), and every time.Sleep ends
ContendSpec ==
    /\ ContendInit
    /\ [][ContendNext]_vars
    /\ \A p \in Procs : SF_vars(WaiterStep(p))
    /\ WF_vars(AdvanceRelative)

\* the same callers, each calling Wait() once at most
OnceNext ==
    \/ \E p \in Procs : CallWait(p) /\ ret[p] = NoRet
    \/ \E p \in Procs : WaiterStep(p)
    \/ AdvanceRelative

OnceSpec ==
    /\ ContendInit
    /\ [][OnceNext]_vars
    /\ \A p \in Procs : SF_vars(WaiterStep(p))
    /\ WF_vars(AdvanceRelative)

\* ------------------------------------------------------------ burst scenario

\* a fresh client with rateLimit = 10, rateBurst = 5, retryLimit = 2
BurstInit ==
    /\ ObsInit
    /\ ProcInit
    /\ ClientOnly
    /\ Alone
    /\ impl = "throttled"
    /\ LET opts == [RetryLimit |-> 2, RateLimit |-> 10 * RateScale,
                    RateBurst |-> 5, ThrottleEnabled |-> TRUE]
       IN  /\ retryLimit = opts.RetryLimit
           /\ throttleEnabled = opts.ThrottleEnabled
           /\ rateLimiter = NewClient(impl, opts, 0)

\* one caller issuing operation after operation on that client: reads,
\* deletes and lists
BurstNext ==
    \/ \E p \in Callers, o \in ConcOps : StartOpUpTo(p, o, MaxBurstOps)
    \/ \E p \in Callers : AllowLockUpTo(p, MaxBurstAllows)
    \/ \E p \in Callers : AllowBody(p)
    \/ \E p \in Callers : WaitPoll(p)
    \/ \E p \in Callers : WaitWake(p)
    \/ \E p \in Callers : Query(p)
    \/ \E p \in Callers, a \in Answers : Respond(p, a)
    \/ \E p \in Callers : BackoffWake(p)
    \/ Tick
    \/ AdvanceToWake

BurstSpec == BurstInit /\ [][BurstNext]_vars

\* ------------------------------------------------------------ the remote store

\* the kinds of entity a workspace holds and the client reads by ID
StoreKinds == {"tag", "variable", "trigger"}
StoreVerbs == {"create", "read", "update", "delete"}
StoreOps == [entity : StoreKinds, verb : StoreVerbs]
\* the IDs the service hands out, and the names and types the callers write
EntityIds == {"1", "2"}
Names == {"a", "b"}
Types == {"html"}

\* a workspace with nothing in it, and one where earlier runs of the tests
\* left an entity of each kind
EmptyStore == [k \in StoreKinds |-> [i \in EntityIds |-> NoEntity]]
SeededStore ==
    [k \in StoreKinds |->
       [i \in EntityIds |->
          IF i = "1" THEN [id |-> "1", name |-> "a", type |-> "html"] ELSE NoEntity]]
\* what a delete that returned nil leaves in the record of the writes
Deleted == [id |-> "", name |-> "", type |-> "deleted"]

Present(k, id) == id \in EntityIds /\ remote[k][id] # NoEntity
FreeIds(k) == {i \in EntityIds : remote[k][i] = NoEntity}

\* the arguments operation o can be called with: tagId and the *tagmanager.Tag
CallArgs(o) ==
    CASE o.verb = "create" ->
           {[id |-> "", body |-> [id |-> "", name |-> n, type |-> t]] :
              n \in Names, t \in Types}
      [] o.verb = "update" ->
           {[id |-> i, body |-> [id |-> i, name |-> n, type |-> t]] :
              i \in EntityIds, n \in Names, t \in Types}
      [] OTHER -> {[id |-> i, body |-> NoEntity] : i \in EntityIds}

\* what the service can answer to the call of o with arguments a: 429 or 500
\* at any time and without effect; else 404 for an ID it does not hold and
\* success for one it holds (for a create: while it has an ID to hand out)
StoreAnswers(o, a) ==
    {"e429", "e500"} \cup
    (IF o.verb = "create"
     THEN (IF FreeIds(o.entity) # {} THEN {"ok"} ELSE {})
     ELSE (IF Present(o.entity, a.id) THEN {"ok"} ELSE {"e404"}))

\* the entity at ID i after the service carried out o with arguments a
Carried(o, a, i) ==
    CASE o.verb \in {"create", "update"} ->
           [id |-> i, name |-> a.body.name, type |-> a.body.type]
      [] o.verb = "delete" -> NoEntity
      [] OTHER -> remote[o.entity][i]

\* a caller calls a store operation with arguments a
StoreCalled(p, o, a, n) ==
    /\ OpStarted(p, o, n)
    /\ args' = [args EXCEPT ![p] = a]
    /\ bodies' = [bodies EXCEPT ![p] = << >>]
    /\ UNCHANGED <<remote, written, ticket, poll, coordinator>>

\* the same where no resource method is looked at
StoreCall(p, o, a, n) == StoreCalled(p, o, a, n) /\ UNCHANGED resourceVars

\* the representation a returned payload stands for
BodyOf(bs, payload) ==
    IF payload = NoPayload THEN NoEntity ELSE bs[payload.attempt]

\* the service answers p's call in flight with answer ans, a create being
\* given the ID i: on success it carries the operation out and its response
\* holds the entity; the wrapper and the operation then go on as ever
StoreResponded(p, ans, i) ==
    /\ pc[p] = "inflight"
    /\ ans \in StoreAnswers(op[p], args[p])
    /\ IF op[p].verb = "create" /\ ans = "ok"
       THEN i \in FreeIds(op[p].entity)
       ELSE i = args[p].id
    /\ Responded(p, ans)
    /\ LET k == op[p].entity
           e == Carried(op[p], args[p], i)
       IN  /\ remote' = IF ans = "ok" THEN [remote EXCEPT ![k][i] = e] ELSE remote
           /\ bodies' = [bodies EXCEPT ![p] =
                           Append(@, IF ans = "ok" /\ op[p].verb # "delete"
                                     THEN e ELSE NoEntity)]
           /\ written' =
                IF pc'[p] = "done" /\ ret'[p].err = NoErr
                THEN CASE op[p].verb = "create" /\ ret'[p].payload # NoPayload ->
                            LET b == BodyOf(bodies'[p], ret'[p].payload)
                            IN  [written EXCEPT ![k][b.id] =
                                   [id |-> b.id, name |-> args[p].body.name,
                                    type |-> args[p].body.type]]
                       [] op[p].verb = "update" ->
                            [written EXCEPT ![k][args[p].id] =
                               [id |-> args[p].id, name |-> args[p].body.name,
                                type |-> args[p].body.type]]
                       [] op[p].verb = "delete" ->
                            [written EXCEPT ![k][args[p].id] = Deleted]
                       [] OTHER -> written
                ELSE written
    /\ UNCHANGED <<args, ticket, poll, coordinator>>

\* the same where no resource method is looked at
StoreRespond(p, ans, i) == StoreResponded(p, ans, i) /\ UNCHANGED resourceVars

\* a client without a limiter on a workspace, fresh or not, one caller
StoreInit ==
    /\ ObsInit
    /\ ProcInit
    /\ Alone
    /\ impl \in {"throttled", "generic"}
    /\ retryLimit \in 0..MaxStoreRetries
    /\ throttleEnabled = FALSE
    /\ rateLimiter = NIL
    /\ remote \in {EmptyStore, SeededStore}
    /\ written = remote
    /\ args = [p \in Procs |-> NoArgs]
    /\ bodies = [p \in Procs |-> << >>]
    /\ handler = NoHandler
    /\ tfstate = NoState
    /\ diags = << >>
    /\ ticket = [p \in Procs |-> 0]
    /\ poll = NIL
    /\ coordinator = NIL

StoreNext ==
    \/ \E p \in Callers, o \in StoreOps :
         \E a \in CallArgs(o) : StoreCall(p, o, a, MaxStoreOps)
    \/ \E p \in Callers : Query(p)
    \/ \E p \in Callers, ans \in Answers, i \in EntityIds \cup {""} :
         StoreRespond(p, ans, i)
    \/ \E p \in Callers : BackoffWake(p)
    \/ AdvanceRelative

StoreSpec == StoreInit /\ [][StoreNext]_vars

\* ------------------------------------------------------------ resources

\* the resources whose methods are looked at: gtm_tag and gtm_trigger
Resources == {"tag", "trigger"}
\* an import ID: of an entity, or empty
ImportIds == EntityIds \cup {""}

\* r.client.Tag(id), r.client.Trigger(id): the client operation on the
\* workspace of the ClientInWorkspace
InWorkspace(r, verb) == [entity |-> r, verb |-> verb]

\* toResourceTag, toResourceTrigger: the model built field by field from
\* the entity
toResource(e) == [id |-> e.id, name |-> e.name, type |-> e.type]

SetState(r, e) ==
    [exists |-> TRUE, resource |-> r, attrs |-> toResource(e), idIs |-> "known"]

\* a state whose id attribute is null or unknown: ValueString() gives ""
SetStateWithoutId(r, n, k) ==
    [exists |-> TRUE, resource |-> r,
     attrs |-> [id |-> "", name |-> n, type |-> "html"], idIs |-> k]

Outcome(st, ds, ph) == [state |-> st, diags |-> ds, phase |-> ph]

\* a Read that drops the resource from state on any error
ReadReturn_RemovesOnAnyError(r, st, e, err) ==
    IF err # NoErr THEN Outcome(NoState, << >>, "returned")
    ELSE Outcome(SetState(r, e), << >>, "returned")

\* Read after r.client.Tag / Trigger returned (e, err), the state being st
ReadReturn(r, st, e, err) ==
    IF err = ErrNotExist THEN Outcome(NoState, << >>, "returned")
    ELSE IF err # NoErr
        THEN Outcome(st, <<"Error Reading " \o TypeName[r]>>, "returned")
        ELSE Outcome(SetState(r, e), << >>, "returned")

\* ImportState after r.client.Tag / Trigger returned (e, err): the tag
\* resource tests err == nil and so reports the tag it was given as missing,
\* and goes on to toResourceTag(nil), a nil dereference, on an error
ImportReturn(r, st, e, err) ==
    IF r = "tag" THEN
        IF err = NoErr
        THEN Outcome(st, <<"Resource Import Failed">>, "returned")
        ELSE Outcome(st, << >>, "panicked")
    ELSE
        IF err # NoErr
        THEN Outcome(st, <<"Error Importing Trigger">>, "returned")
        ELSE Outcome(SetState(r, e), << >>, "returned")

\* Delete after r.client.DeleteTag / DeleteTrigger returned err, the
\* diagnostics so far being ds: ErrNotExist is passed over in silence, any
\* other error is reported; the framework then drops the resource from
\* state unless the response holds an error
DeleteReturn(r, st, ds, err) ==
    LET more == IF err = ErrNotExist \/ err = NoErr THEN << >>
                ELSE <<"Error Deleting " \o TypeName[r]>>
    IN  Outcome(IF ds \o more = << >> THEN NoState ELSE st, more, "returned")

\* the framework can call a method: none is running and none has panicked
Callable == handler.phase \in {"none", "returned"}

\* Read up to its call of the client: the ID is the one in the state
ReadCall(p, r) ==
    /\ Callable
    /\ tfstate.exists /\ tfstate.resource = r
    /\ handler' = [resource |-> r, method |-> "Read", id |-> tfstate.attrs.id,
                   phase |-> "calling"]
    /\ diags' = << >>
    /\ StoreCalled(p, InWorkspace(r, "read"),
                   [id |-> tfstate.attrs.id, body |-> NoEntity], MaxHandlerRuns)
    /\ UNCHANGED tfstate

\* Delete up to its call of the client: the tag resource notes a null or
\* unknown id as an error and goes on; the call is made with ValueString()
DeleteCall(p, r) ==
    /\ Callable
    /\ tfstate.exists /\ tfstate.resource = r
    /\ handler' = [resource |-> r, method |-> "Delete", id |-> tfstate.attrs.id,
                   phase |-> "calling"]
    /\ diags' = IF r = "tag" /\ tfstate.idIs # "known"
                THEN <<"Invalid Id state">> ELSE << >>
    /\ StoreCalled(p, InWorkspace(r, "delete"),
                   [id |-> tfstate.attrs.id, body |-> NoEntity], MaxHandlerRuns)
    /\ UNCHANGED tfstate

\* ImportState with ID id: an empty ID is refused at once, any other is read
ImportCall(p, r, id) ==
    /\ Callable
    /\ ~tfstate.exists
    /\ IF id = ""
       THEN /\ invocations < MaxHandlerRuns
            /\ handler' = [resource |-> r, method |-> "ImportState", id |-> id,
                           phase |-> "returned"]
            /\ diags' = <<IF r = "tag" THEN "Resource Import Missing ID"
                          ELSE "Error Importing Trigger">>
            /\ invocations' = invocations + 1
            /\ UNCHANGED <<tfstate, storeVars, ticket, poll, coordinator, now, ticks,
                           clientVars, limiterVars, procVars>>
       ELSE /\ handler' = [resource |-> r, method |-> "ImportState", id |-> id,
                           phase |-> "calling"]
            /\ diags' = << >>
            /\ StoreCalled(p, InWorkspace(r, "read"),
                           [id |-> id, body |-> NoEntity], MaxHandlerRuns)
            /\ UNCHANGED tfstate

\* the service answers the call in flight of the running method; when the
\* client operation returns with it, the method runs to its end
HandlerRespond(p, ans, i) ==
    /\ handler.phase = "calling"
    /\ StoreResponded(p, ans, i)
    /\ IF pc'[p] = "done"
       THEN LET e == BodyOf(bodies'[p], ret'[p].payload)
                out == CASE handler.method = "Read" ->
                              ReadReturn(handler.resource, tfstate, e, ret'[p].err)
                         [] handler.method = "Delete" ->
                              DeleteReturn(handler.resource, tfstate, diags, ret'[p].err)
                         [] OTHER ->
                              ImportReturn(handler.resource, tfstate, e, ret'[p].err)
            IN  /\ tfstate' = out.state
                /\ diags' = diags \o out.diags
                /\ handler' = [handler EXCEPT !.phase = out.phase]
       ELSE UNCHANGED resourceVars

\* a resource in state that the workspace may no longer hold, or none yet
ResourceInit ==
    /\ ObsInit
    /\ ProcInit
    /\ Alone
    /\ impl \in {"throttled", "generic"}
    /\ retryLimit \in 0..MaxStoreRetries
    /\ throttleEnabled = FALSE
    /\ rateLimiter = NIL
    /\ remote \in {EmptyStore, SeededStore}
    /\ written = remote
    /\ args = [p \in Procs |-> NoArgs]
    /\ bodies = [p \in Procs |-> << >>]
    /\ handler = NoHandler
    /\ tfstate \in {NoState} \cup
                   {SetState(r, [id |-> "1", name |-> n, type |-> "html"]) :
                      r \in Resources, n \in Names} \cup
                   {SetStateWithoutId(r, "a", k) :
                      r \in Resources, k \in {"null", "unknown"}}
    /\ diags = << >>
    /\ ticket = [p \in Procs |-> 0]
    /\ poll = NIL
    /\ coordinator = NIL

ResourceNext ==
    \/ \E p \in Callers, r \in Resources : ReadCall(p, r)
    \/ \E p \in Callers, r \in Resources : DeleteCall(p, r)
    \/ \E p \in Callers, r \in Resources, id \in ImportIds : ImportCall(p, r, id)
    \/ \E p \in Callers : Query(p)
    \/ \E p \in Callers, ans \in Answers, i \in ImportIds : HandlerRespond(p, ans, i)
    \/ \E p \in Callers : BackoffWake(p)
    \/ AdvanceRelative

ResourceSpec == ResourceInit /\ [][ResourceNext]_vars

\* ------------------------------------------------------------ TestCoordinator

\* the delays the test suites build their coordinator with
MinDelays == {2 * Second, 3 * Second}

\* NewTestCoordinator(minDelay).  returns is not a field of the code: it
\* records, in order, who returned from WaitBeforeRequest, when, and whether
\* it had slept
NewTestCoordinator(minDelay) ==
    [mutex |-> 0,
     lastRequestTime |-> now - minDelay,
     minDelay |-> minDelay,
     returns |-> << >>]

\* a WaitBeforeRequest that never sleeps
sleepTime_NoSleep(c) == 0

\* how long WaitBeforeRequest sleeps, called at time now: 0 for no sleep
sleepTime(c) ==
    LET elapsed == now - c.lastRequestTime IN
      IF elapsed < c.minDelay THEN c.minDelay - elapsed ELSE 0

\* a coordinator just built, goroutines that have not called it yet
CoordInit ==
    /\ ObsInit
    /\ ProcInit
    /\ Alone
    /\ remote = NIL
    /\ args = [p \in Procs |-> NoArgs]
    /\ bodies = [p \in Procs |-> << >>]
    /\ written = NIL
    /\ handler = NoHandler
    /\ tfstate = NoState
    /\ diags = << >>
    /\ ticket = [p \in Procs |-> 0]
    /\ poll = NIL
    /\ impl = "throttled"
    /\ retryLimit = 0
    /\ throttleEnabled = TRUE
    /\ rateLimiter = NIL
    /\ \E minDelay \in MinDelays : coordinator = NewTestCoordinator(minDelay)

coordRest == <<clientVars, limiterVars, storeVars, resourceVars, ticket, poll,
               op, retryCount, ret, attempts, responses, trace>>

\* goroutine p calls WaitBeforeRequest and stands at c.mutex.Lock()
CoordCall(p) ==
    /\ pc[p] = "idle"
    /\ invocations < MaxCoordCalls
    /\ invocations' = invocations + 1
    /\ pc' = [pc EXCEPT ![p] = "lock"]
    /\ ctx' = [ctx EXCEPT ![p] = "coordinator"]
    /\ sleeps' = [sleeps EXCEPT ![p] = << >>]
    /\ UNCHANGED <<now, ticks, wakeAt, coordinator, coordRest>>

\* c.mutex.Lock() returns
CoordLock(p) ==
    /\ pc[p] = "lock"
    /\ coordinator.mutex = 0
    /\ coordinator' = [coordinator EXCEPT !.mutex = p]
    /\ pc' = [pc EXCEPT ![p] = "locked"]
    /\ UNCHANGED <<now, ticks, ctx, sleeps, wakeAt, invocations, coordRest>>

\* elapsed := time.Since(c.lastRequestTime), and the time.Sleep entered if
\* elapsed < c.minDelay
CoordElapsed(p) ==
    /\ pc[p] = "locked"
    /\ LET d == sleepTime(coordinator) IN
         IF d > 0
           THEN /\ pc' = [pc EXCEPT ![p] = "sleeping"]
                /\ wakeAt' = [wakeAt EXCEPT ![p] = now + d]
                /\ sleeps' = [sleeps EXCEPT ![p] = <<d>>]
           ELSE /\ pc' = [pc EXCEPT ![p] = "stamp"]
                /\ UNCHANGED <<wakeAt, sleeps>>
    /\ UNCHANGED <<now, ticks, ctx, coordinator, invocations, coordRest>>

\* time.Sleep returns, not before its time
CoordWake(p) ==
    /\ pc[p] = "sleeping"
    /\ now >= wakeAt[p]
    /\ pc' = [pc EXCEPT ![p] = "stamp"]
    /\ UNCHANGED <<now, ticks, ctx, sleeps, wakeAt, coordinator, invocations, coordRest>>

\* c.lastRequestTime = time.Now(), the deferred c.mutex.Unlock() and the return
CoordReturn(p) ==
    /\ pc[p] = "stamp"
    /\ coordinator' =
         [coordinator EXCEPT
            !.lastRequestTime = now,
            !.mutex = 0,
            !.returns = Append(@, [by |-> p, at |-> now, slept |-> sleeps[p] # << >>])]
    /\ pc' = [pc EXCEPT ![p] = "idle"]
    /\ UNCHANGED <<now, ticks, ctx, sleeps, wakeAt, invocations, coordRest>>

\* a second passes: freely MaxCoordTicks times, and whenever a time.Sleep is
\* still to end
CoordTick ==
    LET pending == \E p \in Procs : pc[p] = "sleeping" /\ now < wakeAt[p] IN
      /\ pending \/ ticks < MaxCoordTicks
      /\ now' = now + Second
      /\ ticks' = IF pending THEN ticks ELSE ticks + 1
      /\ UNCHANGED <<pc, ctx, sleeps, wakeAt, coordinator, invocations, coordRest>>

CoordNext ==
    \/ \E p \in Procs : CoordCall(p)
    \/ \E p \in Procs : CoordLock(p)
    \/ \E p \in Procs : CoordElapsed(p)
    \/ \E p \in Procs : CoordWake(p)
    \/ \E p \in Procs : CoordReturn(p)
    \/ CoordTick

CoordSpec == CoordInit /\ [][CoordNext]_vars

\* ------------------------------------------------------------ properties

All429(rs) == \A i \in 1..Len(rs) : rs[i] = "e429"
Last(rs) == rs[Len(rs)]
Front(rs) == SubSeq(rs, 1, Len(rs) - 1)
Finished(p) == pc[p] = "done" /\ ctx[p] = "op"

\* C1: an invocation whose every attempt was answered 429 makes exactly
\* retryLimit + 1 attempts and retryLimit backoff sleeps and then fails with
\* the "rate limit exceeded after <retryLimit> retries" error
C1_RetriesExhausted ==
    \A p \in Procs :
        (ctx[p] = "op" /\ All429(responses[p])) =>
            /\ Len(responses[p]) <= retryLimit + 1
            /\ Len(responses[p]) = retryLimit + 1 =>
                 /\ pc[p] = "done"
                 /\ attempts[p] = retryLimit + 1
                 /\ Len(sleeps[p]) = retryLimit
                 /\ ret[p].werr.kind = "*fmt.wrapError"
                 /\ ret[p].werr.code = retryLimit
                 /\ impl = "throttled" =>
                      ret[p].werr.text = "rate limit exceeded after %d retries"
                 /\ ret[p].err = ret[p].werr
                 /\ ret[p].payload = NoPayload
            /\ pc[p] = "done" => Len(responses[p]) = retryLimit + 1

C1_Witness ==
    \E p \in Procs :
        /\ Finished(p)
        /\ impl = "throttled"
        /\ rateLimiter # NIL
        /\ retryLimit = 2
        /\ Len(responses[p]) = 3
        /\ All429(responses[p])
        /\ Len(sleeps[p]) = 2

\* C2: k < retryLimit answers of 429 followed by a success: the invocation
\* returns the payload of attempt k+1 after k+1 attempts and k backoff sleeps
C2_SuccessAfterRetries ==
    \A p \in Procs :
        (/\ ctx[p] = "op"
         /\ responses[p] # << >>
         /\ Last(responses[p]) = "ok"
         /\ All429(Front(responses[p]))
         /\ Len(responses[p]) - 1 < retryLimit) =>
            LET k == Len(responses[p]) - 1 IN
            /\ pc[p] = "done"
            /\ attempts[p] = k + 1
            /\ Len(sleeps[p]) = k
            /\ ret[p].err = NoErr
            /\ ret[p].werr = NoErr
            /\ ret[p].wpayload = RemotePayload(op[p], "ok", k + 1)
            /\ ret[p].payload.attempt = ret[p].wpayload.attempt

C2_Witness ==
    \E p \in Procs :
        /\ Finished(p)
        /\ retryLimit = 2
        /\ responses[p] = <<"e429", "ok">>
        /\ ret[p].payload.attempt = 2
        /\ Len(sleeps[p]) = 1

\* C3: an attempt answered by an error other than 429 ends the invocation at
\* once: the wrapper returns that very error, no payload, and there is no
\* further attempt and no further sleep
C3_OtherErrorsPropagate ==
    \A p \in Procs :
        (/\ ctx[p] = "op"
         /\ responses[p] # << >>
         /\ Last(responses[p]) \notin {"ok", "e429"}) =>
            /\ pc[p] = "done"
            /\ ret[p].werr = RemoteErr(Last(responses[p]))
            /\ ret[p].wpayload = NoPayload
            /\ attempts[p] = Len(responses[p])
            /\ Len(sleeps[p]) = Len(responses[p]) - 1
            /\ All429(Front(responses[p]))
            /\ Last(trace[p]) = "call"

C3_Witness ==
    \E p \in Procs :
        /\ Finished(p)
        /\ responses[p] = <<"e429", "neterr">>
        /\ ret[p].werr = transportError
        /\ ret[p].err = transportError

\* C4: a read-by-id of any entity kind whose remote call answers 404 returns
\* (nil, ErrNotExist), and the 404 attempt is the invocation's last
C4_ReadNotFound ==
    \A p \in Procs :
        (/\ ctx[p] = "op"
         /\ op[p].verb = "read"
         /\ responses[p] # << >>
         /\ Last(responses[p]) = "e404") =>
            /\ pc[p] = "done"
            /\ ret[p].err = ErrNotExist
            /\ ret[p].payload = NoPayload
            /\ attempts[p] = Len(responses[p])

C4_Witness ==
    \E p \in Procs :
        /\ Finished(p)
        /\ op[p] = [entity |-> "trigger", verb |-> "read"]
        /\ responses[p] = <<"e429", "e404">>
        /\ ret[p].err = ErrNotExist

\* C5: every operation of every entity kind returns ErrNotExist when the
\* remote call answers 404, and an operation's error is either that sentinel
\* or its retry wrapper's error
C5_EveryOpNotFound ==
    \A p \in Procs :
        Finished(p) =>
            /\ Last(responses[p]) = "e404" => ret[p].err = ErrNotExist
            /\ ret[p].err \in {ErrNotExist, ret[p].werr}

\* C6: with a limiter, the events of an invocation are admit, call and then
\* repetitions of (sleep, admit, call): every call is preceded by its own
\* admission, taken after the preceding backoff sleep
C6_AdmitBeforeEveryAttempt ==
    \A p \in Procs :
        (ctx[p] = "op" /\ rateLimiter # NIL) =>
            /\ \A i \in 1..Len(trace[p]) :
                 trace[p][i] = CASE i % 3 = 1 -> "admit"
                                 [] i % 3 = 2 -> "call"
                                 [] i % 3 = 0 -> "sleep"
            /\ pc[p] \in {"inflight", "done"} =>
                 (trace[p] # << >> /\ Last(trace[p]) = "call")
            /\ pc[p] = "query" =>
                 (trace[p] # << >> /\ Last(trace[p]) = "admit")
            /\ pc[p] \in {"backoff", "allow", "locked", "poll", "napping"} =>
                 (trace[p] = << >> \/ Last(trace[p]) = "sleep")

C6_Witness ==
    \E p \in Procs :
        /\ ctx[p] = "op"
        /\ rateLimiter # NIL
        /\ trace[p] = <<"admit", "call", "sleep", "admit", "call">>

\* C7: the admissions granted up to now never exceed capacity + refillRate * t,
\* t the time since the limiter was created
C7_AdmissionBound ==
    rateLimiter # NIL =>
        granted * OneToken <= rateLimiter.capacity + rateLimiter.refillRate * now

C7_Witness ==
    /\ rateLimiter # NIL
    /\ rateLimiter.capacity >= OneToken
    /\ granted * OneToken > rateLimiter.capacity
    /\ \E p, q \in Procs : p # q /\ ret[p].ok /\ ret[q].ok

\* C8: the token balance stays within 0 .. capacity
C8_TokensInRange ==
    rateLimiter # NIL =>
        /\ 0 <= rateLimiter.tokens
        /\ rateLimiter.tokens <= rateLimiter.capacity

\* an Allow() whose refill overshot the capacity and was capped before the
\* token was taken
C8_Witness ==
    /\ rateLimiter # NIL
    /\ allowCalls >= 2
    /\ lastAllow.ok
    /\ lastAllow.gap * rateLimiter.refillRate > rateLimiter.capacity
    /\ rateLimiter.tokens = rateLimiter.capacity - OneToken

\* C9: from a fresh bucket of capacity c, Allow() calls with no time elapsing
\* between them: the n-th returns true exactly when n <= c
C9_BurstThenReject ==
    (rateLimiter # NIL /\ allowCalls >= 1 /\ lastAllow.at = lastAllow.first) =>
        (lastAllow.ok <=> allowCalls * OneToken <= rateLimiter.capacity)

C9_Witness ==
    /\ rateLimiter # NIL
    /\ rateLimiter.capacity = 2 * OneToken
    /\ allowCalls = 3
    /\ granted = 2
    /\ lastAllow.at = lastAllow.first
    /\ ~lastAllow.ok

\* an Allow() that came at least 1/refillRate after the Allow() before it
Spaced ==
    /\ rateLimiter # NIL
    /\ allowCalls >= 2
    /\ lastAllow.gap * rateLimiter.refillRate >= OneToken

\* C10 as stated: for every capacity >= 0, an Allow() spaced at least
\* 1/refillRate after the previous one returns true
C10_SpacedAlwaysAllowed == Spaced => lastAllow.ok

\* C10 amended: for every capacity >= 1, an Allow() spaced at least
\* 1/refillRate after the previous one returns true
C10_SpacedAllowedWithCapacity ==
    (Spaced /\ rateLimiter.capacity >= OneToken) => lastAllow.ok

\* the spaced Allow() found the bucket empty before its refill
C10_Witness ==
    /\ Spaced
    /\ rateLimiter.capacity = OneToken
    /\ lastAllow.gap * rateLimiter.refillRate = OneToken
    /\ rateLimiter.tokens = 0
    /\ lastAllow.ok

\* a caller inside Wait(): called directly or through throttle()
InWait(p) ==
    ctx[p] \in {"wait", "op"} /\ pc[p] \in {"allow", "locked", "poll", "napping"}

\* C11: a caller leaves Wait() only in the step in which an Allow() it made
\* inside that Wait() returns true, and that step takes exactly one token off
\* the bucket: one more grant, the refilled balance less one token
C11_WaitReturnsOnAllow ==
    [][\A p \in Procs :
          (InWait(p) /\ ~InWait(p)') =>
              /\ pc[p] = "locked"
              /\ mutex = p
              /\ allowCalls' = allowCalls + 1
              /\ lastAllow'.ok
              /\ lastAllow'.at = now
              /\ granted' = granted + 1
              /\ rateLimiter'.tokens + OneToken =
                     min(rateLimiter.capacity,
                         rateLimiter.tokens
                           + (now - rateLimiter.lastRefill) * rateLimiter.refillRate)
              /\ \A q \in Procs \ {p} : InWait(q) => InWait(q)'
      ]_vars

\* two Wait() calls returned on a bucket of one token: the second one polled,
\* slept and was admitted by a later Allow()
C11_Witness ==
    /\ rateLimiter # NIL
    /\ rateLimiter.capacity = OneToken
    /\ \A p \in Procs : ctx[p] = "wait" /\ pc[p] = "idle" /\ ret[p] = WaitRet
    /\ granted = 2
    /\ allowCalls >= 3

\* C12: a client built with ThrottleEnabled = false has no RateLimiter, no
\* caller of it is ever in Wait() or Allow(), no attempt is preceded by an
\* admission, and a caller sleeps only in a retry backoff
C12_DisabledNeverWaits ==
    (impl = "throttled" /\ ~throttleEnabled) =>
        /\ rateLimiter = NIL
        /\ allowCalls = 0
        /\ \A p \in Procs :
              /\ ~InWait(p)
              /\ \A i \in 1..Len(trace[p]) : trace[p][i] # "admit"
              /\ wakeAt[p] > 0 => pc[p] = "backoff"
              /\ Len(sleeps[p]) = Len(SelectSeq(trace[p], LAMBDA e : e = "sleep"))
              /\ attempts[p] = Len(SelectSeq(trace[p], LAMBDA e : e # "sleep"))

\* with throttling off, three attempts separated by two backoff sleeps
C12_Witness ==
    \E p \in Procs :
        /\ impl = "throttled"
        /\ ~throttleEnabled
        /\ Finished(p)
        /\ trace[p] = <<"call", "sleep", "call", "sleep", "call">>
        /\ Len(sleeps[p]) = 2

\* C13: on a fresh client with rateLimit 10 and rateBurst 5, the first five
\* admissions asked for at one instant are all granted and nobody sleeps in
\* Wait(); a sixth admission is granted only when at least 100 ms have
\* passed since that instant
C13_BurstOfFiveThenWait ==
    /\ (allowCalls <= 5 /\ lastAllow.at = lastAllow.first) =>
          /\ granted = allowCalls
          /\ \A p \in Procs : pc[p] \notin {"poll", "napping"}
    /\ granted >= 6 => now - lastAllow.first >= 100 * Millisecond

\* six operations started at instant 0: five admitted there, the sixth
\* rejected there, asleep for 100 ms and admitted by its second Allow()
C13_Witness ==
    \E p \in Callers :
        /\ invocations = 6
        /\ ticks = 0
        /\ allowCalls = 7
        /\ granted = 6
        /\ lastAllow.first = 0
        /\ lastAllow.ok
        /\ lastAllow.at = 100 * Millisecond
        /\ trace[p] = <<"admit">>

\* C14 as stated: for every capacity >= 0, a started operation of a single
\* caller eventually returns
C14_EveryOpReturns ==
    \A p \in Callers : (ctx[p] = "op") ~> (pc[p] = "done")

\* C14 amended: with no limiter or a capacity >= 1, a started operation of a
\* single caller eventually returns, after at most retryLimit + 1 attempts
C14_ReturnsWithCapacity ==
    \A p \in Callers :
        (ctx[p] = "op" /\ (rateLimiter = NIL \/ rateLimiter.capacity >= OneToken))
            ~> (pc[p] = "done" /\ attempts[p] <= retryLimit + 1)

\* a delete on a bucket of one token at the slowest rate, rate-limited once:
\* the one-second backoff refills less than a token, so the second admission
\* was waited for in Wait() before the operation returned
C14_Witness ==
    \E p \in Callers :
        /\ Finished(p)
        /\ rateLimiter # NIL
        /\ rateLimiter.capacity = OneToken
        /\ rateLimiter.refillRate = 1
        /\ op[p].verb = "delete"
        /\ responses[p] = <<"e429", "ok">>
        /\ rateLimiter.tokens = 0

C16_ExponentialBackoff ==
    \A p \in Procs :
        ctx[p] = "op" =>
            /\ \A i \in 1..(Len(sleeps[p]) - 1) : sleeps[p][i + 1] > sleeps[p][i]
            /\ \A i \in 1..(Len(sleeps[p]) - 2) :
                  sleeps[p][i + 1] * sleeps[p][i + 1] = sleeps[p][i] * sleeps[p][i + 2]

\* C18: an operation that returns a non-nil error (the sentinel, retries
\* exhausted, or a propagated error) returns a nil payload, and so did its
\* retry wrapper, whatever the earlier attempts of the invocation were
C18_ErrorMeansNoPayload ==
    \A p \in Procs :
        Finished(p) =>
            /\ ret[p].err # NoErr => ret[p].payload = NoPayload
            /\ ret[p].werr # NoErr => ret[p].wpayload = NoPayload
            /\ ret[p].werr # NoErr => ret[p].err # NoErr

\* a read, rate-limited once, then answered by an error that came with a
\* non-nil response: the caller gets the error and no payload
C18_Witness ==
    \E p \in Procs :
        /\ Finished(p)
        /\ op[p].verb = "read"
        /\ responses[p] = <<"e429", "e500r">>
        /\ RemotePayload(op[p], "e500r", 2) # NoPayload
        /\ ret[p].err = googleapiError(500)
        /\ ret[p].payload = NoPayload

\* the admissions an invocation has obtained
Admissions(p) == Len(SelectSeq(trace[p], LAMBDA e : e = "admit"))

\* C17: the admissions of all operations of a client, whatever their entity
\* kind and type, are the grants of its one bucket, each taking one token
\* that the bucket then no longer holds; and the second client's admissions
\* leave the first client's bucket as it is, and the other way round
C17_OneBucketPerClient ==
    /\ [](/\ Admissions(1) + Admissions(2) = granted
          /\ granted * OneToken + rateLimiter.tokens
                <= rateLimiter.capacity + rateLimiter.refillRate * rateLimiter.lastRefill
          /\ peer.granted * OneToken + peer.rateLimiter.tokens
                <= peer.rateLimiter.capacity
                     + peer.rateLimiter.refillRate * peer.rateLimiter.lastRefill)
    /\ [][/\ \A p \in Procs :
                Admissions(p)' # Admissions(p) =>
                    /\ granted' = granted + 1
                    /\ rateLimiter'.tokens + OneToken =
                           min(rateLimiter.capacity,
                               rateLimiter.tokens
                                 + (now - rateLimiter.lastRefill) * rateLimiter.refillRate)
                    /\ \A q \in Procs \ {p} : Admissions(q)' = Admissions(q)
          /\ peer' # peer => rateLimiter' = rateLimiter
          /\ rateLimiter' # rateLimiter => peer' = peer
      ]_vars

\* a bucket of one token: a read of a trigger took it, the delete of a tag
\* started at the same instant had to wait for the refill, and meanwhile the
\* second client was admitted from its own, still full bucket
C17_Witness ==
    /\ peer # NIL
    /\ rateLimiter.capacity = OneToken
    /\ op[1] = [entity |-> "trigger", verb |-> "read"]
    /\ op[2] = [entity |-> "tag", verb |-> "delete"]
    /\ Admissions(1) = 1
    /\ pc[2] = "napping"
    /\ now = 0
    /\ rateLimiter.tokens = 0
    /\ peer.granted = 1
    /\ peer.rateLimiter.tokens = 0

\* the number of 429 answers an invocation has received
Count429(rs) == Len(SelectSeq(rs, LAMBDA a : a = "e429"))

\* C19: whatever the interleaving of two invocations on one client, the
\* retries an invocation has used, the backoffs it has slept and whether it
\* fails with retries exhausted are given by its own operation and its own
\* 429 answers alone
C19_RetryStatePerInvocation ==
    \A p \in Procs :
        ctx[p] = "op" =>
            /\ retryCount[p] = min(Count429(responses[p]), retryLimit)
            /\ Len(sleeps[p]) = retryCount[p]
            /\ \A i \in 1..Len(sleeps[p]) :
                  sleeps[p][i] = IF op[p].verb = "delete" THEN i * Second
                                 ELSE 20 * i * Second
            /\ attempts[p] <= retryLimit + 1
            /\ (pc[p] = "done" /\ ret[p].werr.kind = "*fmt.wrapError")
                  <=> Count429(responses[p]) = retryLimit + 1

\* two concurrent invocations: one was rate-limited on every attempt and
\* failed with retries exhausted, the other was rate-limited once, in
\* between, and succeeded on its first retry
C19_Witness ==
    /\ retryLimit = 1
    /\ Finished(1)
    /\ Finished(2)
    /\ responses[1] = <<"e429", "e429">>
    /\ ret[1].werr.kind = "*fmt.wrapError"
    /\ responses[2] = <<"e429", "ok">>
    /\ ret[2].err = NoErr
    /\ Len(sleeps[1]) = 1
    /\ Len(sleeps[2]) = 1

\* no retry or rate setting is supplied, in the environment or the provider block
NothingSupplied ==
    /\ cfg.env.GTM_RETRY_LIMIT = ""
    /\ cfg.env.GTM_RATE_LIMIT = ""
    /\ cfg.env.GTM_RATE_BURST = ""
    /\ cfg.env.GTM_THROTTLE_ENABLED = ""
    /\ cfg.config.retry_limit.null

\* C20: a client of the throttled implementation built with no retry or rate
\* setting supplied, from the environment or by the provider's Configure,
\* has retryLimit 10, rateLimit 10.0, rateBurst 20 and throttling enabled
C20_DefaultsEverywhere ==
    (impl = "throttled" /\ cfg.built \in {"env", "provider"} /\ NothingSupplied) =>
        /\ retryLimit = 10
        /\ cfg.opts.RateLimit = 10 * RateScale
        /\ cfg.opts.RateBurst = 20
        /\ throttleEnabled
        /\ rateLimiter = NewRateLimiter(10 * RateScale, 20, 0)

\* what does hold: the defaults for options built from the environment
DefaultsFromEnv ==
    (impl = "throttled" /\ cfg.built = "env" /\ NothingSupplied) =>
        /\ retryLimit = 10
        /\ cfg.opts.RateLimit = 10 * RateScale
        /\ cfg.opts.RateBurst = 20
        /\ throttleEnabled
        /\ rateLimiter = NewRateLimiter(10 * RateScale, 20, 0)

\* C26: every Allow() is one step of the caller holding the mutex, and that
\* step is the reference: elapsed = now - lastRefill, tokens refilled to
\* min(capacity, tokens + elapsed * refillRate), lastRefill = now, and then
\* true with exactly one token taken iff the refilled balance is >= 1, else
\* false with the refilled balance left as it is; no other step changes the
\* limiter
C26_AllowIsReference ==
    [][/\ allowCalls' # allowCalls =>
            LET elapsed == now - rateLimiter.lastRefill
                refilled == IF rateLimiter.tokens + elapsed * rateLimiter.refillRate
                                  < rateLimiter.capacity
                            THEN rateLimiter.tokens + elapsed * rateLimiter.refillRate
                            ELSE rateLimiter.capacity
            IN  /\ allowCalls' = allowCalls + 1
                /\ mutex # 0
                /\ pc[mutex] = "locked"
                /\ mutex' = 0
                /\ elapsed >= 0
                /\ rateLimiter'.lastRefill = now
                /\ rateLimiter'.capacity = rateLimiter.capacity
                /\ rateLimiter'.refillRate = rateLimiter.refillRate
                /\ lastAllow'.ok <=> refilled >= 1000 * RateScale
                /\ lastAllow'.ok => rateLimiter'.tokens = refilled - 1000 * RateScale
                /\ ~lastAllow'.ok => rateLimiter'.tokens = refilled
                /\ granted' = granted + (IF lastAllow'.ok THEN 1 ELSE 0)
                /\ ctx[mutex] = "allow" => ret'[mutex] = AllowRet(lastAllow'.ok)
                /\ \A q \in Procs \ {mutex} : pc'[q] = pc[q] /\ ret'[q] = ret[q]
       /\ allowCalls' = allowCalls => rateLimiter' = rateLimiter
      ]_vars

\* an Allow() 100 ms after the bucket was emptied, at 0.5 tokens per second:
\* rejected, and the 0.05 token refilled is left in the bucket
C26_Witness ==
    /\ rateLimiter # NIL
    /\ allowCalls >= 2
    /\ ~lastAllow.ok
    /\ lastAllow.gap = 100 * Millisecond
    /\ rateLimiter.refillRate = 1
    /\ rateLimiter.tokens = 100
    /\ rateLimiter.lastRefill = now
    /\ \E p \in Procs : ret[p] = AllowRet(FALSE)

\* C28: a step that admits nobody never lowers the token balance, a rejected
\* Allow() changes it by the refill for the elapsed time and by nothing else,
\* and lastRefill never moves backwards nor ahead of the clock
C28_NoDecreaseBetweenAdmissions ==
    /\ [](rateLimiter # NIL => rateLimiter.lastRefill <= now)
    /\ [][/\ granted' = granted => rateLimiter'.tokens >= rateLimiter.tokens
          /\ (allowCalls' # allowCalls /\ ~lastAllow'.ok) =>
                /\ rateLimiter'.tokens - rateLimiter.tokens
                      <= (now - rateLimiter.lastRefill) * rateLimiter.refillRate
                /\ \/ rateLimiter'.tokens - rateLimiter.tokens
                         = (now - rateLimiter.lastRefill) * rateLimiter.refillRate
                   \/ rateLimiter'.tokens = rateLimiter.capacity
          /\ rateLimiter'.lastRefill >= rateLimiter.lastRefill
          /\ granted' >= granted
         ]_vars

\* one admission emptied a bucket of one token at 0.5 tokens per second;
\* rejected Allow() calls followed, the last of them one second after the
\* one before, and it left the half token refilled in that second
C28_Witness ==
    /\ rateLimiter # NIL
    /\ rateLimiter.refillRate = 1
    /\ rateLimiter.capacity = OneToken
    /\ granted = 1
    /\ allowCalls = 4
    /\ ~lastAllow.ok
    /\ lastAllow.gap = 1 * Second
    /\ lastAllow.at = 1 * Second
    /\ rateLimiter.tokens = 1000

\* C27: the mutex is held only by a caller inside Allow(), between Lock and
\* the deferred Unlock: never by a caller asleep in Wait(), asleep in a retry
\* backoff or waiting for its remote call.  So whatever phase the other
\* callers are in, a caller about to call Allow() finds the mutex free or
\* held by a caller that can finish its Allow() at once, and a caller
\* admitted can start its remote call
C27_NoLockWhileBlocked ==
    /\ \A p \in Procs :
          pc[p] \in {"poll", "napping", "backoff", "inflight", "query", "done", "idle"}
              => mutex # p
    /\ mutex # 0 => (pc[mutex] = "locked" /\ ENABLED AllowBody(mutex))
    /\ \A q \in Procs :
          /\ (pc[q] = "allow" /\ mutex = 0 /\ allowCalls < MaxAllows)
                => ENABLED AllowLock(q)
          /\ pc[q] = "query" => ENABLED Query(q)

\* two remote calls in flight at once on a throttled client, the first
\* caller's being its second attempt, after a backoff
C27_Witness ==
    /\ rateLimiter # NIL
    /\ mutex = 0
    /\ pc[1] = "inflight"
    /\ pc[2] = "inflight"
    /\ attempts[1] = 2
    /\ attempts[2] = 1
    /\ granted = 3

\* C30: admission does not go by order of arrival.  Whoever finds the mutex
\* free may take it, however long others have been waiting, and the Allow()
\* it then makes admits it iff the refilled balance is at least one token:
\* so a caller that entered Wait() later can be admitted while a caller that
\* entered earlier is still waiting
C30_NotFirstComeFirstServed ==
    /\ [](\A q \in Procs :
             (ctx[q] = "wait" /\ pc[q] = "allow" /\ mutex = 0 /\ allowCalls < MaxAllows)
                 => ENABLED AllowLock(q))
    /\ [][\A q \in Procs :
             (ctx[q] = "wait" /\ pc[q] = "locked" /\ pc'[q] # "locked") =>
                 ((pc'[q] = "idle" /\ ret'[q] = WaitRet)
                     <=> Admits(Refill(rateLimiter, now)))
         ]_vars

\* the first caller entered Wait() on the emptied bucket and sleeps between
\* its polls; the second entered Wait() after it and has returned from it
C30_Witness ==
    \E p, q \in Procs :
        /\ ticket[p] >= 1
        /\ ticket[p] < ticket[q]
        /\ ctx[p] = "wait"
        /\ pc[p] \in {"allow", "poll", "napping"}
        /\ ctx[q] = "wait"
        /\ pc[q] = "idle"
        /\ ret[q] = WaitRet

\* 1000/refillRate in whole milliseconds, clamped to [10 ms, 1000 ms]
ClampedQuotient(rate) ==
    LET q == IF rate.n > 0 THEN (1000 * RateScale) \div rate.n
             ELSE IF rate.e >= 10 THEN 1000
             ELSE TwoTo(rate.e)
    IN  IF q < 10 THEN 10 * Millisecond
        ELSE IF q > 1000 THEN 1000 * Millisecond
        ELSE q * Millisecond

\* C29: for every refillRate > 0 the sleep between two polls of Wait() is
\* 1000/refillRate milliseconds (in whole milliseconds) clamped to
\* [10 ms, 1000 ms], so never shorter than 10 ms and never longer than 1 s
C29_SleepIsClampedQuotient ==
    (poll # NIL /\ poll.waitTime # -1) =>
        /\ poll.waitTime = ClampedQuotient(poll.rate)
        /\ poll.waitTime >= 10 * Millisecond
        /\ poll.waitTime <= 1 * Second

\* what does hold for every rate: the sleep is within [10 ms, 1 s]
SleepWithinBounds ==
    (poll # NIL /\ poll.waitTime # -1) =>
        /\ poll.waitTime >= 10 * Millisecond
        /\ poll.waitTime <= 1 * Second

\* and it is the clamped quotient wherever the quotient in nanoseconds is an
\* int64: for refill rates of 1000/2^43 tokens per second and more
SleepIsClampedQuotientInRange ==
    (poll # NIL /\ poll.waitTime # -1 /\ poll.rate.e <= 43) =>
        poll.waitTime = ClampedQuotient(poll.rate)

\* the required settings that are empty once the provider block's value, if
\* set, has replaced the environment's
EmptyOnes ==
    {name \in Required :
        (IF ~cfg.config[name].null /\ ~cfg.config[name].unknown
         THEN cfg.config[name].v ELSE cfg.env[name]) = ""}

\* the first of them in the order credential_file, account_id, container_id,
\* workspace_name
FirstEmpty ==
    IF "credential_file" \in EmptyOnes THEN "credential_file"
    ELSE IF "account_id" \in EmptyOnes THEN "account_id"
    ELSE IF "container_id" \in EmptyOnes THEN "container_id"
    ELSE "workspace_name"

\* C25: Configure publishes a client only if none of the four required
\* settings is empty after config-over-environment resolution; if one is, it
\* ends with exactly one diagnostic, "Missing <field>" for the first empty
\* one in that order, and without a client; before Configure there is neither
C25_ClientOnlyWhenComplete ==
    /\ cfg.built = "none" => (diags = << >> /\ cfg.opts = NIL)
    /\ cfg.built = "provider" => (EmptyOnes = {} /\ diags = << >> /\ cfg.opts # NIL)
    /\ (cfg.built # "none" /\ EmptyOnes # {}) =>
          /\ cfg.built = "failed"
          /\ cfg.opts = NIL
          /\ rateLimiter = NIL
          /\ diags = <<"Missing " \o FirstEmpty>>
    /\ (cfg.built = "failed" /\ EmptyOnes = {}) =>
          diags = <<"Unable to Create GTM Client">>

\* the environment has all four, the provider block sets account_id to the
\* empty string and leaves workspace_name unknown, and container_id is
\* unset on both sides: one error, for account_id
C25_Witness ==
    /\ cfg.built = "failed"
    /\ cfg.env.credential_file = "e"
    /\ cfg.env.account_id = "e"
    /\ cfg.config.account_id = Value("")
    /\ cfg.env.container_id = ""
    /\ cfg.config.container_id = Null("")
    /\ cfg.config.workspace_name = Unknown("")
    /\ cfg.env.workspace_name = "e"
    /\ diags = <<"Missing account_id">>

\* a read-by-id of caller p has returned
ReadDone(p) == Finished(p) /\ op[p].verb = "read" /\ op[p].entity \in StoreKinds
\* the record of the writes at the ID p's operation was called with
WrittenAt(p) == written[op[p].entity][args[p].id]

\* C23 (as stated): after a delete of an existing tag, variable or trigger
\* returned nil, every later read-by-id of its ID returns exactly ErrNotExist
\* until an entity with that ID is created again
C23_ReadAfterDeleteNotExist ==
    \A p \in Callers :
        ReadDone(p) /\ WrittenAt(p) = Deleted => ret[p].err = ErrNotExist

\* C23 (amended): after a delete of an existing tag, variable or trigger
\* returned nil and until an entity with that ID is created again, a later
\* read-by-id of its ID never returns an entity; it returns exactly
\* ErrNotExist unless the read itself fails, with the retries-exhausted error
\* when every attempt was rate limited or with the service's other error
C23_ReadAfterDeleteFindsNothing ==
    \A p \in Callers :
        ReadDone(p) /\ WrittenAt(p) = Deleted =>
            /\ ret[p].payload = NoPayload
            /\ \/ /\ Last(responses[p]) = "e404"
                  /\ ret[p].err = ErrNotExist
               \/ /\ All429(responses[p])
                  /\ ret[p].err = ExhaustedErr(impl, Wrapper(impl, op[p]), retryLimit)
               \/ /\ Last(responses[p]) = "e500"
                  /\ ret[p].err = googleapiError(500)

\* C23 witness: the third operation of a run, a read of an ID whose entity a
\* delete removed, was rate limited once and then returned ErrNotExist
C23_Witness ==
    \E p \in Callers :
        /\ ReadDone(p)
        /\ WrittenAt(p) = Deleted
        /\ remote[op[p].entity][args[p].id] = NoEntity
        /\ responses[p] = <<"e429", "e404">>
        /\ ret[p].err = ErrNotExist

Ended(m) == handler.method = m /\ handler.phase \notin {"none", "calling"}

\* C21: when a resource Read gets ErrNotExist from the client it removes the
\* resource from state and adds no error diagnostic; on every other error,
\* the retries-exhausted one included, it adds one error diagnostic and
\* leaves the stored state as it was
C21_ReadNotExistRemoves ==
    [][\A p \in Callers :
          handler.method = "Read" /\ handler.phase = "calling"
            /\ handler'.phase # "calling" =>
              /\ handler'.phase = "returned"
              /\ ret'[p].err = ErrNotExist =>
                    ~tfstate'.exists /\ diags' = << >>
              /\ ret'[p].err \notin {NoErr, ErrNotExist} =>
                    /\ diags' = <<"Error Reading " \o TypeName[handler.resource]>>
                    /\ tfstate' = tfstate]_vars

\* C21 witness: a Read whose two attempts were both rate limited ended with
\* the retries-exhausted error, one diagnostic, and the state it started
\* with, which still shows a name the workspace does not hold
C21_Witness ==
    /\ Ended("Read")
    /\ retryLimit = 1
    /\ responses[1] = <<"e429", "e429">>
    /\ ret[1].err = ExhaustedErr(impl, Wrapper(impl, op[1]), retryLimit)
    /\ Len(diags) = 1
    /\ tfstate.exists /\ tfstate.attrs.name = "b"

\* a Read that found the entity gone ended with the resource out of state
\* and no diagnostic
C21_WitnessRemoved ==
    /\ Ended("Read")
    /\ ret[1].err = ErrNotExist
    /\ ~tfstate.exists
    /\ diags = << >>

\* C22 (as stated): importing a tag by the ID of a tag that exists remotely
\* succeeds: ImportState adds no error diagnostic and sets the state to the
\* attributes of the remote tag with that ID
C22_ImportExistingTag ==
    Ended("ImportState") /\ handler.resource = "tag"
      /\ Present("tag", handler.id) /\ ret[1].err = NoErr =>
        /\ handler.phase = "returned"
        /\ diags = << >>
        /\ tfstate = SetState("tag", remote["tag"][handler.id])

\* what the tag resource's ImportState does instead, and the trigger
\* resource's does as told: an existing tag is refused with "Resource Import
\* Failed" and no state, an existing trigger is imported
ImportOfExisting ==
    Ended("ImportState") /\ Present(handler.resource, handler.id)
      /\ ret[1].err = NoErr =>
        IF handler.resource = "tag"
        THEN diags = <<"Resource Import Failed">> /\ ~tfstate.exists
        ELSE diags = << >>
               /\ tfstate = SetState("trigger", remote["trigger"][handler.id])

\* caller p is blocked in a Wait() it called directly
Waiting(p) == ctx[p] = "wait" /\ pc[p] \in {"allow", "locked", "poll", "napping"}
Admitted(p) == ctx[p] = "wait" /\ pc[p] = "idle" /\ ret[p] = WaitRet

\* C31 (as stated): with several callers blocked in Wait() on one limiter of
\* capacity >= 1 and fair scheduling, every caller is eventually admitted,
\* also while others keep being admitted
C31_EveryWaiterAdmitted ==
    \A p \in Procs : Waiting(p) ~> Admitted(p)

\* what holds: when every caller calls Wait() once, every caller is
\* eventually admitted
EveryWaiterAdmittedOnce ==
    \A p \in Procs : Waiting(p) ~> Admitted(p)

\* the remote calls an invocation has started
Calls(p) == Len(SelectSeq(trace[p], LAMBDA e : e = "call"))

\* what every state of a throttled client shows: the remote calls started
\* are within the tokens handed out, and each caller's calls follow its own
\* admissions one to one
CallsFollowAdmissions ==
    /\ attempts[1] + attempts[2] <= granted
    /\ Admissions(1) + Admissions(2) = granted
    /\ \A p \in Procs :
          ctx[p] = "op" =>
            /\ Calls(p) = attempts[p]
            /\ Calls(p) <= Admissions(p)
            /\ Admissions(p) <= Calls(p) + 1
            /\ pc[p] = "done" => Admissions(p) = Calls(p)

\* C32 (as stated): with throttling enabled the remote calls started never
\* exceed the tokens handed out, every remote call follows exactly one
\* successful Allow() of its caller, and an invocation that sees k
\* rate-limited responses consumes exactly k + 1 tokens
C32_TokensPerInvocation ==
    rateLimiter # NIL =>
        /\ CallsFollowAdmissions
        /\ \A p \in Procs :
              Finished(p) => Admissions(p) = Count429(responses[p]) + 1

\* C32 (amended): with throttling enabled the remote calls started never
\* exceed the tokens handed out and every remote call follows exactly one
\* successful Allow() of its caller, so an invocation consumes one token per
\* attempt: k + 1 tokens when it saw k rate-limited responses and then
\* another answer, and retryLimit + 1 tokens, as many as its rate-limited
\* responses, when it ends with retries exhausted
C32_TokenPerAttempt ==
    rateLimiter # NIL =>
        /\ CallsFollowAdmissions
        /\ \A p \in Procs :
              Finished(p) =>
                /\ Admissions(p) = Len(responses[p])
                /\ Admissions(p) =
                     IF All429(responses[p]) THEN retryLimit + 1
                     ELSE Count429(responses[p]) + 1
                /\ All429(responses[p]) => Count429(responses[p]) = retryLimit + 1

\* C32 witness: two invocations on one limiter, one rate limited once and
\* then served, one rate limited on both its attempts: two tokens each
C32_Witness ==
    /\ rateLimiter # NIL
    /\ retryLimit = 1
    /\ Finished(1) /\ Finished(2)
    /\ responses[1] = <<"e429", "ok">>
    /\ responses[2] = <<"e429", "e429">>
    /\ Admissions(1) = 2 /\ Admissions(2) = 2
    /\ granted = 4

\* C33: an invocation whose first retryLimit attempts were answered 429 and
\* whose next attempt succeeded returns that attempt's success: the last
\* retry permitted is made (no invocation ends on a 429 before its attempt
\* retryLimit + 1) and its result is what the caller gets, after
\* retryLimit + 1 attempts and retryLimit backoff sleeps
C33_LastRetryCounts ==
    \A p \in Callers :
      /\ (/\ ctx[p] = "op"
          /\ All429(responses[p])
          /\ Len(responses[p]) <= retryLimit) => pc[p] # "done"
      /\ (/\ ctx[p] = "op"
          /\ Len(responses[p]) = retryLimit + 1
          /\ All429(Front(responses[p]))
          /\ Last(responses[p]) = "ok") =>
            /\ pc[p] = "done"
            /\ attempts[p] = retryLimit + 1
            /\ Len(sleeps[p]) = retryLimit
            /\ ret[p].err = NoErr
            /\ ret[p].werr = NoErr
            /\ ret[p].wpayload = RemotePayload(op[p], "ok", retryLimit + 1)
            /\ ret[p].payload.attempt = ret[p].wpayload.attempt

\* C33 witness: with a retry limit of 2, a read of a tag answered 429 twice
\* and then served returned the tag of its third attempt
C33_Witness ==
    \E p \in Callers :
        /\ Finished(p)
        /\ retryLimit = 2
        /\ op[p] = [entity |-> "tag", verb |-> "read"]
        /\ responses[p] = <<"e429", "e429", "ok">>
        /\ ret[p].err = NoErr
        /\ ret[p].payload.attempt = 3

\* the other of the two client implementations
Other(i) == IF i = "throttled" THEN "generic" ELSE "throttled"

\* how a wrapper's loop ended: with success and a payload, with the error
\* the remote call gave, or with retries exhausted after so many retries
\* (the wording of that error left aside)
Ending(payload, err) ==
    IF err = NoErr THEN [class |-> "success", payload |-> payload, err |-> NoErr]
    ELSE IF err.kind = "*fmt.wrapError"
        THEN [class |-> "retries-exhausted", payload |-> payload,
              err |-> [err EXCEPT !.text = ""]]
        ELSE [class |-> "propagated", payload |-> payload, err |-> err]

StillRunning == [class |-> "running", payload |-> NoPayload, err |-> NoErr]

\* the loop of implementation i's wrapper for operation o, run without
\* throttling from retryCount rc on the answers rs: the attempts it makes,
\* the backoff sleeps it takes and how it ends
RECURSIVE Replay(_, _, _, _, _)
Replay(i, o, limit, rs, rc) ==
    IF rs = << >>
    THEN [attempts |-> 0, sleeps |-> << >>, ending |-> StillRunning]
    ELSE LET r == WithRetry(i, Wrapper(i, o), rc, limit,
                            RemotePayload(o, Head(rs), rc + 1), RemoteErr(Head(rs)))
         IN  IF r.next = "retry"
             THEN LET rest == Replay(i, o, limit, Tail(rs), rc + 1)
                  IN  [attempts |-> 1 + rest.attempts,
                       sleeps |-> <<r.sleep>> \o rest.sleeps,
                       ending |-> rest.ending]
             ELSE [attempts |-> 1, sleeps |-> << >>,
                   ending |-> Ending(r.payload, r.err)]

C35_DeleteOfAbsentIsSilent ==
    Ended("Delete") /\ handler.id # "" /\ Last(responses[1]) = "e404" =>
        /\ diags = << >>
        /\ ~tfstate.exists

\* what Delete does on a 404: DeleteTag and DeleteTrigger hand the 404 on as
\* it is, which is not ErrNotExist, so Delete reports it and the resource
\* stays in state
DeleteOfAbsentReported ==
    Ended("Delete") /\ handler.id # "" /\ Last(responses[1]) = "e404" =>
        /\ ret[1].err = googleapiError(404)
        /\ diags = <<"Error Deleting " \o TypeName[handler.resource]>>
        /\ tfstate.exists

\* C36 (as stated): importing a tag by an ID the workspace does not hold, or
\* whose read fails otherwise, ends with a 'Resource Import Failed' error,
\* writes no state and never dereferences a nil tag
C36_ImportOfAbsentTagFails ==
    handler.method = "ImportState" /\ handler.resource = "tag"
      /\ handler.phase # "calling" /\ handler.id # "" /\ ret[1].err # NoErr =>
        /\ handler.phase = "returned"
        /\ diags = <<"Resource Import Failed">>
        /\ ~tfstate.exists

\* what ImportState of the tag resource does on any error of the read: it
\* goes past its err == nil test into toResourceTag(nil)
ImportOfAbsentTagPanics ==
    handler.method = "ImportState" /\ handler.resource = "tag"
      /\ handler.phase # "calling" /\ handler.id # "" /\ ret[1].err # NoErr =>
        /\ handler.phase = "panicked"
        /\ diags = << >>

\* C37 (as stated): tagResource.Delete called with a null or unknown id in
\* state adds the 'Invalid Id state' error and issues no remote delete call
C37_DeleteWithoutIdStops ==
    handler.method = "Delete" /\ handler.resource = "tag" /\ handler.id = "" =>
        /\ diags # << >>
        /\ diags[1] = "Invalid Id state"
        /\ op[1].verb # "delete"
        /\ pc[1] \in {"idle", "done"}

\* what that Delete does: it adds the error and calls DeleteTag with the
\* empty ID all the same
DeleteWithoutIdCalls ==
    handler.method = "Delete" /\ handler.resource = "tag" /\ handler.id = "" =>
        /\ diags # << >>
        /\ diags[1] = "Invalid Id state"
        /\ op[1] = [entity |-> "tag", verb |-> "delete"]
        /\ args[1].id = ""
        /\ Ended("Delete") => attempts[1] >= 1 /\ tfstate.exists

\* a client was built, by NewClientFromEnv or by the provider's Configure
ClientBuilt == cfg.built \in {"env", "provider"}

\* C38 (as stated): the retry limit a client runs with is never negative:
\* whatever the provider's retry_limit and GTM_RETRY_LIMIT are, a value that
\* is not a valid non-negative count is replaced by the default 10
C38_RetryLimitNonNegative ==
    ClientBuilt => retryLimit >= 0

\* what holds: the retry limit is the default 10 for an absent or unparsable
\* GTM_RETRY_LIMIT, and otherwise the number given, be it negative
RetryLimitAsGiven ==
    /\ cfg.built = "env" =>
          retryLimit = CASE cfg.env.GTM_RETRY_LIMIT = "5" -> 5
                         [] cfg.env.GTM_RETRY_LIMIT = "0" -> 0
                         [] cfg.env.GTM_RETRY_LIMIT = "-3" -> -3
                         [] cfg.env.GTM_RETRY_LIMIT = "7x" -> 7
                         [] OTHER -> 10
    /\ (cfg.built = "provider" /\ retryLimit < 0) =>
          IsSet(cfg.config.retry_limit) /\ cfg.config.retry_limit.v = retryLimit

\* the value GTM_RETRY_LIMIT stands for where it starts with an integer > 0
PositiveEnv(s) == CASE s = "5" -> 5 [] s = "7x" -> 7 [] OTHER -> 0

\* C39: the retry limit of a client built by the provider's Configure is the
\* retry_limit attribute when that is set (neither null nor unknown), else
\* GTM_RETRY_LIMIT when it parses as an integer > 0, else the default 10
C39_RetryLimitPrecedence ==
    cfg.built = "provider" =>
        retryLimit =
            IF ~cfg.config.retry_limit.null /\ ~cfg.config.retry_limit.unknown
            THEN cfg.config.retry_limit.v
            ELSE IF PositiveEnv(cfg.env.GTM_RETRY_LIMIT) > 0
                THEN PositiveEnv(cfg.env.GTM_RETRY_LIMIT)
                ELSE 10

\* C39 witness: retry_limit = 3 in the provider block and GTM_RETRY_LIMIT=5
\* in the environment: the client runs with 3
C39_Witness ==
    /\ cfg.built = "provider"
    /\ cfg.config.retry_limit = Value(3)
    /\ cfg.env.GTM_RETRY_LIMIT = "5"
    /\ retryLimit = 3

\* an unknown retry_limit leaves GTM_RETRY_LIMIT=5 in force, and a zero
\* GTM_RETRY_LIMIT gives the default
C39_WitnessEnv ==
    /\ cfg.built = "provider"
    /\ cfg.config.retry_limit = Unknown(0)
    /\ cfg.env.GTM_RETRY_LIMIT = "5"
    /\ retryLimit = 5

C39_WitnessDefault ==
    /\ cfg.built = "provider"
    /\ cfg.config.retry_limit = Null(0)
    /\ cfg.env.GTM_RETRY_LIMIT = "0"
    /\ retryLimit = 10

C40_WitnessNoSleep ==
    /\ coordinator # NIL
    /\ Len(coordinator.returns) >= 2
    /\ ~coordinator.returns[2].slept

====
